---- MODULE Spec2Model ----
(***************************************************************************)
(* Model of the Bedrock model discovery and access-gap pipeline:           *)
(*   chrome-extension/src/background/services/aws-model-discovery.ts       *)
(*   chrome-extension/src/background/agent/helper.ts (fetchBedrockModels)  *)
(* Identifiers are TLA+ strings; the string built-ins the code relies on   *)
(* (includes, toLowerCase, trim, split, the default sort order) are        *)
(* computed character by character.                                        *)
(***************************************************************************)
EXTENDS Integers, Sequences, FiniteSets, TLC

(***************************************************************************)
(* JavaScript string and array built-ins                                   *)
(***************************************************************************)

\* Runs of consecutive UTF-16 code units: the code of a run's first character
\* and the characters of the run. They cover the text of the modelled
\* identifiers, headers and cells.
CodeRuns ==
  << <<32, " ">>,
     <<40, "()*+,-./0123456789:">>,
     <<65, "ABCDEFGHIJKLMNOPQRSTUVWXYZ">>,
     <<95, "_">>,
     <<97, "abcdefghijklmnopqrstuvwxyz">> >>

charAt(s, i) == SubSeq(s, i, i)

includesChar(s, c) == \E i \in 1..Len(s) : SubSeq(s, i, i) = c

\* String.prototype.charCodeAt(0), as a table over the characters above.
charCode ==
  [c \in UNION {{charAt(CodeRuns[r][2], i) : i \in 1..Len(CodeRuns[r][2])} :
                  r \in 1..Len(CodeRuns)} |->
     LET r == CHOOSE q \in 1..Len(CodeRuns) : includesChar(CodeRuns[q][2], c)
         i == CHOOSE j \in 1..Len(CodeRuns[r][2]) : charAt(CodeRuns[r][2], j) = c
     IN  CodeRuns[r][1] + i - 1]

\* String.fromCharCode for the characters above.
fromCharCode(n) == CHOOSE c \in DOMAIN charCode : charCode[c] = n

\* The order Array.prototype.sort() uses without a comparator: strings are
\* compared code unit by code unit, a proper prefix sorting first.
RECURSIVE strLess(_, _)
strLess(a, b) ==
  IF Len(b) = 0 THEN FALSE
  ELSE IF Len(a) = 0 THEN TRUE
  ELSE IF charAt(a, 1) = charAt(b, 1) THEN strLess(Tail(a), Tail(b))
  ELSE charCode[charAt(a, 1)] < charCode[charAt(b, 1)]

\* String.prototype.includes and RegExp.test for a literal pattern.
includes(s, sub) ==
  \E i \in 1..(Len(s) - Len(sub) + 1) : SubSeq(s, i, i + Len(sub) - 1) = sub

\* Array.prototype.includes.
arrayIncludes(arr, x) == \E i \in 1..Len(arr) : arr[i] = x

\* String.prototype.toLowerCase on ASCII text.
RECURSIVE toLowerCase(_)
toLowerCase(s) ==
  IF Len(s) = 0 THEN ""
  ELSE LET c == charAt(s, 1)
           n == charCode[c]
       IN  (IF n >= 65 /\ n <= 90 THEN fromCharCode(n + 32) ELSE c)
             \o toLowerCase(Tail(s))

\* String.prototype.trim (the only white space of the modelled text is " ").
RECURSIVE trimStart(_)
trimStart(s) ==
  IF Len(s) > 0 /\ charAt(s, 1) = " " THEN trimStart(Tail(s)) ELSE s

RECURSIVE trimEnd(_)
trimEnd(s) ==
  IF Len(s) > 0 /\ charAt(s, Len(s)) = " "
    THEN trimEnd(SubSeq(s, 1, Len(s) - 1)) ELSE s

trim(s) == trimEnd(trimStart(s))

\* String.prototype.split on a one-character separator: the pieces between
\* the separators, empty pieces kept.
RECURSIVE splitAt(_, _, _)
splitAt(s, sep, cur) ==
  IF Len(s) = 0 THEN <<cur>>
  ELSE IF charAt(s, 1) = sep THEN <<cur>> \o splitAt(Tail(s), sep, "")
  ELSE splitAt(Tail(s), sep, cur \o charAt(s, 1))

split(s, sep) == splitAt(s, sep, "")

\* String.prototype.split(/\s+/) : a run of white space is one separator.
RECURSIVE splitWsAt(_, _)
splitWsAt(s, cur) ==
  IF Len(s) = 0 THEN <<cur>>
  ELSE IF charAt(s, 1) = " " THEN <<cur>> \o splitWsAt(trimStart(s), "")
  ELSE splitWsAt(Tail(s), cur \o charAt(s, 1))

splitWhitespace(s) == splitWsAt(s, "")

\* Set.prototype.add on a Set kept in insertion order (the order
\* Array.from(set) yields): a value already present is not added again.
setAdd(set, x) == IF arrayIncludes(set, x) THEN set ELSE Append(set, x)

RECURSIVE setAddAll(_, _)
setAddAll(set, xs) ==
  IF Len(xs) = 0 THEN set ELSE setAddAll(setAdd(set, Head(xs)), Tail(xs))

\* Array.prototype.sort() : insertion of each element into the sorted
\* prefix (stable).
RECURSIVE insertSorted(_, _)
insertSorted(sorted, x) ==
  IF Len(sorted) = 0 THEN <<x>>
  ELSE IF strLess(x, Head(sorted)) THEN <<x>> \o sorted
  ELSE <<Head(sorted)>> \o insertSorted(Tail(sorted), x)

RECURSIVE sortFrom(_, _)
sortFrom(sorted, rest) ==
  IF Len(rest) = 0 THEN sorted
  ELSE sortFrom(insertSorted(sorted, Head(rest)), Tail(rest))

\* Array.from(set) without the sort.
insertionOrder(arr) == arr

sort(arr) == sortFrom(<<>>, arr)

(***************************************************************************)
(* aws-model-discovery.ts : the catalog                                    *)
(***************************************************************************)

\* The value of an absent optional field (releaseDate?: string).
undefined == "<undefined>"

\* What a call yields: a value, or a thrown error (a rejected promise).
Return(v) == [threw |-> FALSE, value |-> v]
Throw == [threw |-> TRUE, value |-> <<>>]

\* const accessRequiredPatterns = [/claude-4/, /opus-4/, ...]
accessRequiredPatterns ==
  <<"claude-4", "opus-4", "sonnet-4", "haiku-4", "nova-premier", "nova-pro">>

\* A predicate whose Anthropic branch takes in every Claude identifier.
isModelRequiringAccessByProvider(modelId, provider) ==
  IF /\ includes(toLowerCase(provider), "anthropic")
     /\ includes(modelId, "claude-")
    THEN TRUE
    ELSE \E i \in 1..Len(accessRequiredPatterns) :
           includes(modelId, accessRequiredPatterns[i])

isModelRequiringAccess(modelId, provider) ==
  IF /\ includes(toLowerCase(provider), "anthropic")
     /\ \/ includes(modelId, "claude-4")
        \/ includes(modelId, "claude-sonnet-4")
        \/ includes(modelId, "claude-opus-4")
        \/ includes(modelId, "claude-haiku-4")
    THEN TRUE
    ELSE \E i \in 1..Len(accessRequiredPatterns) :
           includes(modelId, accessRequiredPatterns[i])

isDigit(c) == charCode[c] >= 48 /\ charCode[c] <= 57

\* modelId.match(/(\d{8})/) : the leftmost position from which 8 digits
\* follow one another, 0 when there is none.
dateMatch(modelId) ==
  LET hits == {i \in 1..(Len(modelId) - 7) :
                 \A k \in 0..7 : isDigit(charAt(modelId, i + k))}
  IN  IF hits = {} THEN 0 ELSE CHOOSE i \in hits : \A j \in hits : i <= j

inferReleaseDate(modelId) ==
  LET at == dateMatch(modelId)
  IN  IF at = 0 THEN undefined
      ELSE LET dateStr == SubSeq(modelId, at, at + 7)
           IN  SubSeq(dateStr, 1, 4) \o "-" \o SubSeq(dateStr, 5, 6)
                 \o "-" \o SubSeq(dateStr, 7, 8)

\* A document is what DOMParser makes of the HTML: its tables in document
\* order, each with the text of its th cells and, per tbody row, the text of
\* its td cells.
headerText(table) == [i \in 1..Len(table.th) |-> toLowerCase(table.th[i])]

isModelTable(table) ==
  /\ arrayIncludes(headerText(table), "model id")
  /\ arrayIncludes(headerText(table), "provider")

\* The index of the first table with both headers, 0 when there is none.
modelTable(doc) ==
  LET hits == {i \in 1..Len(doc) : isModelTable(doc[i])}
  IN  IF hits = {} THEN 0 ELSE CHOOSE i \in hits : \A j \in hits : i <= j

notStar(r) == r /= "" /\ r /= "*"

trimAll(parts) == [i \in 1..Len(parts) |-> trim(parts[i])]

\* The descriptor of one row with at least 6 cells.
parseRow(cells) ==
  LET provider == trim(cells[1])
      modelName == trim(cells[2])
      modelId == trim(cells[3])
  IN  [modelId |-> modelId,
       modelName |-> modelName,
       provider |-> provider,
       regions |-> SelectSeq(splitWhitespace(trim(cells[4])), notStar),
       inputModalities |-> trimAll(split(trim(cells[5]), ",")),
       outputModalities |-> trimAll(split(trim(cells[6]), ",")),
       streamingSupported |->
         IF Len(cells) >= 7 THEN includes(toLowerCase(cells[7]), "yes")
         ELSE FALSE,
       requiresAccess |-> isModelRequiringAccess(modelId, provider),
       status |-> "ACTIVE"]

RECURSIVE parseRows(_)
parseRows(rows) ==
  IF Len(rows) = 0 THEN <<>>
  ELSE LET cells == Head(rows)
           keep == /\ Len(cells) >= 6
                   /\ trim(cells[3]) /= ""
                   /\ trim(cells[1]) /= ""
       IN  (IF keep THEN <<parseRow(cells)>> ELSE <<>>)
             \o parseRows(Tail(rows))

\* Line 61: new DOMParser() throws a ReferenceError in a runtime that does
\* not define DOMParser (the extension's service worker); a window defines
\* it. The error is thrown inside the try block.
VARIABLE domParser

\* The error of line 61 and the error thrown when no table matches are
\* caught inside the function (line 118), which then returns the models
\* collected so far: none.
parseModelCatalogFromHTML(html) ==
  IF ~domParser THEN <<>>
  ELSE IF modelTable(html) = 0 THEN <<>>
  ELSE parseRows(html[modelTable(html)].rows)

\* The descriptor with its access flag as parsed and without a date.
enhanceModelUndated(model) ==
  [f \in DOMAIN model \cup {"releaseDate"} |->
     IF f = "releaseDate" THEN undefined ELSE model[f]]

enhanceModel(model) ==
  [modelId |-> model.modelId,
   modelName |-> model.modelName,
   provider |-> model.provider,
   regions |-> model.regions,
   inputModalities |-> model.inputModalities,
   outputModalities |-> model.outputModalities,
   streamingSupported |-> model.streamingSupported,
   requiresAccess |-> isModelRequiringAccess(model.modelId, model.provider),
   status |-> model.status,
   releaseDate |-> inferReleaseDate(model.modelId)]

enhanceModelMetadata(models) ==
  [i \in 1..Len(models) |-> enhanceModel(models[i])]

Claude4Regions == <<"us-east-1", "us-east-2", "us-west-1", "us-west-2", "eu-west-1">>

fallbackEntry(modelId, modelName, regions, releaseDate) ==
  [modelId |-> modelId,
   modelName |-> modelName,
   provider |-> "Anthropic",
   regions |-> regions,
   inputModalities |-> <<"Text", "Image">>,
   outputModalities |-> <<"Text", "Chat">>,
   streamingSupported |-> TRUE,
   requiresAccess |-> TRUE,
   status |-> "ACTIVE",
   releaseDate |-> releaseDate]

getFallbackModelCatalog ==
  << fallbackEntry("anthropic.claude-sonnet-4-5-20250929-v1:0",
                   "Claude Sonnet 4.5",
                   Claude4Regions \o <<"eu-central-1">>, "2025-09-29"),
     fallbackEntry("anthropic.claude-haiku-4-5-20251001-v1:0",
                   "Claude Haiku 4.5",
                   Claude4Regions \o <<"eu-central-1">>, "2025-10-01"),
     fallbackEntry("anthropic.claude-sonnet-4-20250514-v1:0",
                   "Claude Sonnet 4", Claude4Regions, "2025-05-14"),
     fallbackEntry("anthropic.claude-opus-4-20250514-v1:0",
                   "Claude Opus 4",
                   <<"us-east-1", "us-east-2", "us-west-2">>, "2025-05-14"),
     fallbackEntry("us.anthropic.claude-sonnet-4-5-20250929-v1:0",
                   "Claude Sonnet 4.5 (US Cross-Region)",
                   <<"us-west-2">>, "2025-09-29"),
     fallbackEntry("eu.anthropic.claude-sonnet-4-5-20250929-v1:0",
                   "Claude Sonnet 4.5 (EU Cross-Region)",
                   <<"eu-west-1">>, "2025-09-29") >>

\* fetchLatestModelCatalog without its try block: the error reaches the caller.
fetchLatestModelCatalogNoCatch(doc) ==
  IF doc.kind \in {"throw", "badbody"} THEN Throw
  ELSE Return(enhanceModelMetadata(parseModelCatalogFromHTML(doc.html)))

\* fetchLatestModelCatalog with a catch block that returns no catalog.
fetchLatestModelCatalogEmptyOnError(doc) ==
  IF doc.kind \in {"throw", "badbody"} THEN Return(<<>>)
  ELSE Return(enhanceModelMetadata(parseModelCatalogFromHTML(doc.html)))

\* fetchLatestModelCatalog on the outcome of the documentation fetch:
\*   kind "throw"    : fetch() rejects (transport error);
\*   kind "badbody"  : a response arrives and response.text() rejects;
\*   kind "response" : a response arrives (its status is never read) and
\*                     html is the parsed body.
\* Whatever is thrown inside the try block is caught (line 47).
fetchLatestModelCatalog(doc) ==
  LET attempt ==
        IF doc.kind \in {"throw", "badbody"} THEN Throw
        ELSE Return(enhanceModelMetadata(parseModelCatalogFromHTML(doc.html)))
  IN  IF attempt.threw THEN Return(getFallbackModelCatalog) ELSE attempt

(***************************************************************************)
(* aws-model-discovery.ts : access status and request commands             *)
(***************************************************************************)

\* The outcome of one signed request:
\*   kind "throw"    : signedFetch rejects (transport error);
\*   kind "response" : a response arrives; ok is response.ok; malformed
\*                     says that reading the body as the expected JSON
\*                     throws (response.json() rejects, or the summaries are
\*                     not an array of objects); body is the summaries list
\*                     of the JSON, empty when the key is absent.
ThrowOutcome == [kind |-> "throw", ok |-> FALSE, malformed |-> FALSE, body |-> <<>>]
Non2xxOutcome == [kind |-> "response", ok |-> FALSE, malformed |-> FALSE, body |-> <<>>]
MalformedOutcome == [kind |-> "response", ok |-> TRUE, malformed |-> TRUE, body |-> <<>>]
OkOutcome(body) == [kind |-> "response", ok |-> TRUE, malformed |-> FALSE, body |-> body]

\* Whether handling the outcome throws inside the try block around it.
throwsInTry(o) == o.kind = "throw" \/ (o.ok /\ o.malformed)

\* new Set(data.modelAccessSummaries?.map(m => m.modelId) || [])
grantedModels(o) == {o.body[i].modelId : i \in 1..Len(o.body)}

\* A status that reports no access whatever the granted set holds.
liveStatusUngranted(modelId, granted) ==
  [modelId |-> modelId,
   hasAccess |-> FALSE,
   accessStatus |-> "NOT_REQUESTED",
   canRequestAccess |-> TRUE]

\* A status that takes a cross-region profile and the direct identifier for
\* one entry: granted when either of the two is in the granted set.
liveStatusByFamily(modelId, granted) ==
  LET direct(id) ==
        IF Len(id) > 3 /\ SubSeq(id, 1, 3) = "us."
          THEN SubSeq(id, 4, Len(id)) ELSE id
      has == \E g \in granted : direct(g) = direct(modelId)
  IN  [modelId |-> modelId,
       hasAccess |-> has,
       accessStatus |-> IF has THEN "GRANTED" ELSE "NOT_REQUESTED",
       canRequestAccess |-> TRUE]

liveStatus(modelId, granted) ==
  [modelId |-> modelId,
   hasAccess |-> modelId \in granted,
   accessStatus |-> IF modelId \in granted THEN "GRANTED" ELSE "NOT_REQUESTED",
   canRequestAccess |-> TRUE]

\* A heuristic status that closes the request path for a gated identifier.
heuristicStatusUnrequestable(modelId) ==
  [modelId |-> modelId,
   hasAccess |-> ~isModelRequiringAccess(modelId, ""),
   accessStatus |-> "NOT_REQUESTED",
   canRequestAccess |-> ~isModelRequiringAccess(modelId, "")]

heuristicStatus(modelId) ==
  [modelId |-> modelId,
   hasAccess |-> ~isModelRequiringAccess(modelId, ""),
   accessStatus |-> "NOT_REQUESTED",
   canRequestAccess |-> TRUE]

\* checkModelAccessStatus on the outcome of the /model-access request. The
\* statuses are pushed only after the granted set is built, so the catch
\* block always starts from an empty list; a response that is not ok goes
\* through neither loop.
checkModelAccessStatus(modelIds, o) ==
  IF throwsInTry(o)
    THEN [i \in 1..Len(modelIds) |-> heuristicStatus(modelIds[i])]
  ELSE IF o.ok
    THEN [i \in 1..Len(modelIds) |-> liveStatus(modelIds[i], grantedModels(o))]
  ELSE <<>>

\* U+0022, the quotation mark of the generated commands (lines 249-250).
QUOTE == "\""

\* modelId.split('.')[0]
providerOf(modelId) == split(modelId, ".")[1]

\* A map with one entry per identifier instead of one per provider.
groupPerIdentifier(map, modelIds) ==
  map \o [i \in 1..Len(modelIds) |->
           [provider |-> providerOf(modelIds[i]), models |-> <<modelIds[i]>>]]

\* The Map modelsByProvider as the sequence of its entries in insertion
\* order, after the loop over modelIds.
RECURSIVE groupByProvider(_, _)
groupByProvider(map, modelIds) ==
  IF Len(modelIds) = 0 THEN map
  ELSE LET modelId == Head(modelIds)
           provider == providerOf(modelId)
           withKey ==
             IF \E i \in 1..Len(map) : map[i].provider = provider THEN map
             ELSE Append(map, [provider |-> provider, models |-> <<>>])
           pushed ==
             [i \in 1..Len(withKey) |->
                IF withKey[i].provider = provider
                  THEN [withKey[i] EXCEPT !.models = Append(@, modelId)]
                  ELSE withKey[i]]
       IN  groupByProvider(pushed, Tail(modelIds))

\* A list that names each identifier once, however often it was pushed.
RECURSIVE modelListDistinct(_)
modelListDistinct(models) ==
  IF Len(models) = 0 THEN ""
  ELSE LET other(m) == m /= Head(models)
           rest == SelectSeq(Tail(models), other)
       IN  QUOTE \o Head(models) \o QUOTE
             \o (IF Len(rest) > 0 THEN " " ELSE "") \o modelListDistinct(rest)

\* models.map(m => `"${m}"`).join(' ')
RECURSIVE modelList(_)
modelList(models) ==
  IF Len(models) = 0 THEN ""
  ELSE QUOTE \o Head(models) \o QUOTE
         \o (IF Len(models) > 1 THEN " " ELSE "") \o modelList(Tail(models))

commandGroup(entry, region) ==
  << "# Request access for " \o entry.provider \o " models",
     "aws bedrock put-model-access-request \\",
     "  --region " \o region \o " \\",
     "  --model-ids " \o modelList(entry.models) \o " \\",
     "  --access-request-reason " \o QUOTE
       \o "Automated access request for Nanobrowser extension" \o QUOTE,
     "" >>

RECURSIVE commandsOf(_, _)
commandsOf(map, region) ==
  IF Len(map) = 0 THEN <<>>
  ELSE commandGroup(Head(map), region) \o commandsOf(Tail(map), region)

generateAccessRequestCommands(modelIds, region) ==
  commandsOf(groupByProvider(<<>>, modelIds), region)

needsAccess(status) == ~status.hasAccess /\ status.canRequestAccess

lacksAccess(status) == ~status.hasAccess

modelIdsOf(items) == [i \in 1..Len(items) |-> items[i].modelId]

\* Every identifier of the statuses, whether it has access or not.
everyModelId(accessStatuses) == modelIdsOf(accessStatuses)

\* accessStatuses.filter(...).map(status => status.modelId)
modelsNeedingAccess(accessStatuses) ==
  modelIdsOf(SelectSeq(accessStatuses, needsAccess))

(***************************************************************************)
(* The two inventory queries (both files filter their answers alike)       *)
(***************************************************************************)

\* model.outputModalities?.includes('TEXT') &&
\*   model.modelLifecycle?.status === 'ACTIVE'
isActiveTextModel(model) ==
  arrayIncludes(model.outputModalities, "TEXT") /\ model.status = "ACTIVE"

isActiveProfile(profile) == profile.status = "ACTIVE"

\* The identifiers an ok answer adds to the Set, in the order they are added.
foundationIds(o) == modelIdsOf(SelectSeq(o.body, isActiveTextModel))

profileIds(o) ==
  LET active == SelectSeq(o.body, isActiveProfile)
  IN  [i \in 1..Len(active) |-> active[i].inferenceProfileId]

(***************************************************************************)
(* The upstream services                                                   *)
(***************************************************************************)

\* helper.ts line 34: the regions queried for 'multi-region'.
MultiRegions == <<"us-west-2", "us-east-1", "eu-west-1", "ap-northeast-1">>

Sonnet35 == "anthropic.claude-3-5-sonnet-20241022-v2:0"
Sonnet45 == "anthropic.claude-sonnet-4-5-20250929-v1:0"
UsSonnet45 == "us.anthropic.claude-sonnet-4-5-20250929-v1:0"
EuSonnet45 == "eu.anthropic.claude-sonnet-4-5-20250929-v1:0"
NovaPro == "amazon.nova-pro-v1:0"
ImageModel == "stability.sd3-large-v1:0"
LegacyModel == "amazon.titan-text-lite-v1"
ApacSonnet35 == "apac.anthropic.claude-3-5-sonnet-20241022-v2:0"

foundationModel(modelId, outputModalities, status) ==
  [modelId |-> modelId, outputModalities |-> outputModalities, status |-> status]

inferenceProfile(id, status) == [inferenceProfileId |-> id, status |-> status]

\* What each region's inventory answers when a query succeeds: the model
\* summaries of /foundation-models and the profile summaries of
\* /inference-profiles.
ModelSummaries(r) ==
  CASE r = "us-west-2" ->
         << foundationModel(Sonnet35, <<"TEXT">>, "ACTIVE"),
            foundationModel(ImageModel, <<"IMAGE">>, "ACTIVE") >>
    [] r = "us-east-1" ->
         << foundationModel(NovaPro, <<"TEXT">>, "ACTIVE"),
            foundationModel(Sonnet35, <<"TEXT">>, "ACTIVE") >>
    [] r = "eu-west-1" -> <<>>
    [] OTHER -> << foundationModel(LegacyModel, <<"TEXT">>, "LEGACY") >>

ProfileSummaries(r) ==
  CASE r = "us-west-2" -> << inferenceProfile(UsSonnet45, "ACTIVE") >>
    [] r = "us-east-1" -> << inferenceProfile(UsSonnet45, "ACTIVE") >>
    [] r = "eu-west-1" -> << inferenceProfile(EuSonnet45, "ACTIVE") >>
    [] OTHER -> << inferenceProfile(ApacSonnet35, "INACTIVE") >>

Failures == {ThrowOutcome, Non2xxOutcome, MalformedOutcome}

FoundationOutcomes(r) == Failures \cup {OkOutcome(ModelSummaries(r))}

ProfileOutcomes(r) == Failures \cup {OkOutcome(ProfileSummaries(r))}

grant(modelId) == [modelId |-> modelId]

\* The answers of /model-access.
EntitlementOutcomes ==
  Failures \cup
    { OkOutcome(<<>>),
      OkOutcome(<< grant(Sonnet35) >>),
      OkOutcome(<< grant(Sonnet35), grant(Sonnet45) >>),
      OkOutcome(<< grant(UsSonnet45) >>),
      OkOutcome(<< grant(Sonnet45), grant(Sonnet35), grant(NovaPro),
                   grant(UsSonnet45) >>) }

ModelTableHeaders ==
  <<"Provider", "Model name", "Model ID", "Regions supported",
    "Input modalities", "Output modalities", "Streaming supported">>

EndpointTable ==
  [th |-> <<"Region", "Provider">>,
   rows |-> << <<"us-west-2", "Amazon">> >>]

\* The documentation page: a table without the model id column, then the
\* model table; its rows include one of 6 cells, one of 4 cells, and rows
\* with a blank provider or a blank model id.
DocModels ==
  << EndpointTable,
     [th |-> ModelTableHeaders,
      rows |->
        << <<"Anthropic", "Claude Sonnet 4.5", " " \o Sonnet45 \o " ",
             "us-east-1  us-west-2 *", "Text, Image", "Text, Chat", "Yes">>,
           <<"Anthropic", "Claude 3.5 Sonnet v2", Sonnet35,
             "us-east-1 us-west-2", "Text, Image", "Text, Chat", "Yes">>,
           <<"Amazon", "Titan Text Lite", LegacyModel, "us-east-1">>,
           <<"  ", "No provider", "nobody.model-v1:0",
             "us-east-1", "Text", "Text", "No">>,
           <<"Amazon", "No id", " ", "us-east-1", "Text", "Text", "No">>,
           <<"Amazon", "Nova Pro", NovaPro, "us-east-1", "Text", "Text">>,
           <<"Anthropic", "Claude Sonnet 4.5 (US)", UsSonnet45,
             "us-west-2", "Text, Image", "Text, Chat", "YES">> >>] >>

\* A page whose tables lack one of the two headers.
DocNoTable ==
  << EndpointTable,
     [th |-> <<"Model name", "Model ID">>,
      rows |-> << <<"Claude Sonnet 4.5", Sonnet45, "", "", "", "">> >>] >>

\* A page without any table (an error page).
DocErrorPage == <<>>

DocThrow == [kind |-> "throw", ok |-> FALSE, html |-> <<>>]
DocBadBody == [kind |-> "badbody", ok |-> TRUE, html |-> <<>>]
DocResponse(ok, html) == [kind |-> "response", ok |-> ok, html |-> html]

\* The outcomes of the documentation fetch.
DocOutcomes ==
  { DocThrow, DocBadBody,
    DocResponse(TRUE, DocModels),
    DocResponse(TRUE, DocNoTable),
    DocResponse(FALSE, DocErrorPage) }

(***************************************************************************)
(* State                                                                   *)
(***************************************************************************)

VARIABLES
  entry,           \* the exported function that was called
  pc,              \* the request the run is waiting for, or how it ended
  selectedRegion,  \* fetchBedrockModels: the selectedRegion argument
  filters,         \* fetchBedrockModels: the filters argument
  regions,         \* fetchBedrockModels: the regions of the loop
  ri,              \* fetchBedrockModels: index of the loop's region
  allModels,       \* fetchBedrockModels: the Set allModels
  modelIds,        \* fetchBedrockModels: the merged, sorted list
  trace,           \* the requests of the region loop with their outcomes
  region,          \* discoverAvailableModels: the region argument
  catalogModels,   \* discoverAvailableModels: the catalog
  accessStatuses,  \* discoverAvailableModels: the statuses
  available,       \* fetchActuallyAvailableModels: the Set allModels
  requests,        \* the requests of the discovery run with their outcomes
  discovery,       \* what discoverAvailableModels returned, <<>> before
  discoverCalls,   \* the regions discoverAvailableModels was called for
  storage,         \* chrome.storage.local: the sequence of objects set
  provisioningCalls, \* the calls of createProvisioningFiles, with answers
  returned,        \* what fetchBedrockModels returned
  returnPath,      \* which return statement of fetchBedrockModels returned
  upstream,        \* replay: the fixed answer of every region's queries
  callNo,          \* replay: 1 for the first call, 2 for the repeated one
  firstModelIds,   \* replay: the merged list of the first call
  args,            \* direct call of a function: its arguments
  result,          \* direct call of a function: what it returned
  second           \* the locals of a second run of discoverAvailableModels

fanVars ==
  <<selectedRegion, filters, regions, ri, allModels, modelIds, trace>>
discVars == <<region, catalogModels, accessStatuses, available, requests,
              discovery>>
outVars == <<storage, provisioningCalls, returned, returnPath>>
replayVars == <<upstream, callNo, firstModelIds>>
callVars == <<args, result>>
vars == <<entry, domParser, pc, fanVars, discVars, discoverCalls, outVars, replayVars,
          callVars, second>>

SelectedRegions == {"multi-region", "us-west-2", "ap-northeast-1"}
DiscoverRegions == {"us-west-2", "ap-northeast-1"}

\* helper.ts lines 33-34.
regionsOf(selected) ==
  IF selected = "multi-region" THEN MultiRegions ELSE <<selected>>

\* The selectedRegion argument handed on as it is.
primaryRegionUnmapped(selected) == selected

\* helper.ts line 139.
primaryRegion(selected) ==
  IF selected = "multi-region" THEN "us-west-2" ELSE selected

AllOk ==
  [r \in {MultiRegions[i] : i \in 1..Len(MultiRegions)} |->
     [foundation |-> OkOutcome(ModelSummaries(r)),
      profiles |-> OkOutcome(ProfileSummaries(r))]]

\* The runtime is a window or a service worker. The collections are empty.
InitCommon ==
  /\ domParser \in BOOLEAN
  /\ allModels = <<>>
  /\ modelIds = <<>>
  /\ trace = <<>>
  /\ catalogModels = <<>>
  /\ accessStatuses = <<>>
  /\ available = <<>>
  /\ requests = <<>>
  /\ discovery = <<>>
  /\ storage = <<>>
  /\ provisioningCalls = <<>>
  /\ returned = <<>>
  /\ returnPath = "none"
  /\ callNo = 1
  /\ firstModelIds = <<>>

\* A call of fetchBedrockModels up to its first request.
InitFetch ==
  /\ entry = "fetchBedrockModels"
  /\ selectedRegion \in SelectedRegions
  /\ regions = regionsOf(selectedRegion)
  /\ ri = 1
  /\ pc = "foundation-models"
  /\ region = ""
  /\ discoverCalls = <<>>

\* A direct call of discoverAvailableModels up to its first request.
InitDiscover ==
  /\ entry = "discoverAvailableModels"
  /\ selectedRegion = ""
  /\ regions = <<>>
  /\ ri = 0
  /\ pc = "docs"
  /\ region \in DiscoverRegions
  /\ discoverCalls = <<region>>

\* No function is called directly.
NoCall ==
  /\ args = <<>>
  /\ result = <<>>

\* There is no second run of discoverAvailableModels.
NoSecondRun == second = [pc |-> "none"]

\* filters = {}: no filter is supplied.
NoFilters ==
  [provider |-> undefined, outputModality |-> undefined,
   inferenceType |-> undefined, customizationType |-> undefined]

Init ==
  /\ InitCommon
  /\ filters = NoFilters
  /\ NoCall
  /\ NoSecondRun
  /\ upstream = AllOk
  /\ InitFetch \/ InitDiscover

(***************************************************************************)
(* helper.ts : fetchBedrockModels                                          *)
(***************************************************************************)

logged(r, url, o) == [region |-> r, url |-> url, outcome |-> o]

\* A request of the region loop with the parameters of its query string.
loggedQuery(r, url, query, o) ==
  [region |-> r, url |-> url, query |-> query, outcome |-> o]

\* if (filters.x) queryParams.append(name, filters.x)
appendIfSet(name, value) ==
  IF value = undefined \/ value = "" THEN <<>> ELSE << <<name, value>> >>

\* Lines 56-69: the entries of the URLSearchParams of the foundation-models
\* request, in the order in which they are appended.
queryParams(f) ==
  << <<"byInferenceType",
       IF f.inferenceType = undefined \/ f.inferenceType = ""
         THEN "ON_DEMAND" ELSE f.inferenceType>> >>
    \o appendIfSet("byProvider", f.provider)
    \o appendIfSet("byOutputModality", f.outputModality)
    \o appendIfSet("byCustomizationType", f.customizationType)

\* Where the loop goes after the body for regions[ri] has ended.
nextRegion ==
  /\ ri' = ri + 1
  /\ pc' = IF ri + 1 > Len(regions) THEN "merge" ELSE "foundation-models"

\* The region loop with the try block around it instead of inside it: an
\* error ends the loop.
foundationStepAbortsLoop(o) ==
  /\ trace' = Append(trace, loggedQuery(regions[ri], "foundation-models",
                                      queryParams(filters), o))
  /\ IF throwsInTry(o)
       THEN /\ ri' = Len(regions) + 1
            /\ pc' = "merge"
            /\ UNCHANGED allModels
       ELSE /\ allModels' = IF o.ok THEN setAddAll(allModels, foundationIds(o))
                            ELSE allModels
            /\ pc' = "inference-profiles"
            /\ UNCHANGED ri
  /\ UNCHANGED <<selectedRegion, filters, regions, modelIds>>

\* Lines 72-92 and 120-123: the answer to the foundation-models request of
\* regions[ri]. An error thrown here leaves the body of the loop.
foundationStep(o) ==
  /\ trace' = Append(trace, loggedQuery(regions[ri], "foundation-models",
                                      queryParams(filters), o))
  /\ IF throwsInTry(o)
       THEN /\ nextRegion
            /\ UNCHANGED allModels
       ELSE /\ allModels' = IF o.ok THEN setAddAll(allModels, foundationIds(o))
                            ELSE allModels
            /\ pc' = "inference-profiles"
            /\ UNCHANGED ri
  /\ UNCHANGED <<selectedRegion, filters, regions, modelIds>>

\* Lines 95-119: the answer to the inference-profiles request of
\* regions[ri]; an error is caught by the inner catch block.
profilesStep(o) ==
  /\ trace' = Append(trace, loggedQuery(regions[ri], "inference-profiles",
                                      <<>>, o))
  /\ allModels' = IF ~throwsInTry(o) /\ o.ok
                    THEN setAddAll(allModels, profileIds(o))
                    ELSE allModels
  /\ nextRegion
  /\ UNCHANGED <<selectedRegion, filters, regions, modelIds>>

FetchFoundationModels ==
  /\ pc = "foundation-models"
  /\ \E o \in FoundationOutcomes(regions[ri]) : foundationStep(o)
  /\ UNCHANGED <<entry, domParser, discVars, discoverCalls, outVars, replayVars,
                 callVars, second>>

FetchInferenceProfiles ==
  /\ pc = "inference-profiles"
  /\ \E o \in ProfileOutcomes(regions[ri]) : profilesStep(o)
  /\ UNCHANGED <<entry, domParser, discVars, discoverCalls, outVars, replayVars,
                 callVars, second>>

\* Line 126.
MergeModels ==
  /\ pc = "merge"
  /\ modelIds' = sort(allModels)
  /\ pc' = "merged"
  /\ UNCHANGED <<entry, domParser, selectedRegion, filters, regions, ri, allModels, trace,
                 discVars, discoverCalls, outVars, replayVars,
                 callVars, second>>

\* Lines 132-134.
ReturnModelIds ==
  /\ pc = "merged"
  /\ Len(modelIds) > 0
  /\ returned' = modelIds
  /\ returnPath' = "api"
  /\ pc' = "returned"
  /\ UNCHANGED <<entry, domParser, fanVars, discVars, discoverCalls, storage,
                 provisioningCalls, replayVars, callVars, second>>

\* A discovery run started whatever the region loop has found.
StartDiscoveryAlways ==
  /\ pc = "merged"
  /\ region' = primaryRegion(selectedRegion)
  /\ discoverCalls' = Append(discoverCalls, primaryRegion(selectedRegion))
  /\ trace' = <<>>
  /\ pc' = "docs"
  /\ UNCHANGED <<entry, domParser, selectedRegion, filters, regions, ri, allModels, modelIds,
                 catalogModels, accessStatuses, available, requests,
                 discovery, outVars, replayVars,
                 callVars, second>>

\* Lines 137-140: the call of discoverAvailableModels up to its first
\* request. The trace of the region loop ends here.
StartDiscovery ==
  /\ pc = "merged"
  /\ Len(modelIds) = 0
  /\ region' = primaryRegion(selectedRegion)
  /\ discoverCalls' = Append(discoverCalls, primaryRegion(selectedRegion))
  /\ trace' = <<>>
  /\ pc' = "docs"
  /\ UNCHANGED <<entry, domParser, selectedRegion, filters, regions, ri, allModels, modelIds,
                 catalogModels, accessStatuses, available, requests,
                 discovery, outVars, replayVars,
                 callVars, second>>

\* Lines 166-188: the list of the final catch block.
staticFallbackModels ==
  << "anthropic.claude-sonnet-4-5-20250929-v1:0",
     "anthropic.claude-haiku-4-5-20251001-v1:0",
     "anthropic.claude-sonnet-4-20250514-v1:0",
     "anthropic.claude-opus-4-20250514-v1:0",
     "anthropic.claude-opus-4-1-20250805-v1:0",
     "anthropic.claude-3-7-sonnet-20250219-v1:0",
     "us.anthropic.claude-sonnet-4-5-20250929-v1:0",
     "us.anthropic.claude-haiku-4-5-20251001-v1:0",
     "eu.anthropic.claude-sonnet-4-5-20250929-v1:0",
     "eu.anthropic.claude-haiku-4-5-20251001-v1:0",
     "global.anthropic.claude-sonnet-4-5-20250929-v1:0",
     "anthropic.claude-3-5-sonnet-20241022-v2:0",
     "anthropic.claude-3-5-haiku-20241022-v1:0",
     "anthropic.claude-3-opus-20240229-v1:0",
     "anthropic.claude-3-sonnet-20240229-v1:0",
     "anthropic.claude-3-haiku-20240307-v1:0" >>

\* Lines 151-154: the object given to chrome.storage.local.set.
provisioningInfo(d) ==
  [commands |-> d.cliCommands,
   needingAccess |-> modelIdsOf(SelectSeq(d.accessStatuses, lacksAccess))]

\* Lines 158-160.
fallbackModels(d) ==
  IF Len(d.availableModels) > 0 THEN d.availableModels
  ELSE modelIdsOf(d.catalogModels)

\* Lines 140-189: what follows the end of the discovery run. The call of
\* chrome.storage.local.set either returns or throws; whatever is thrown
\* inside the try block, a rejection of discoverAvailableModels included,
\* ends in the static list.
FinishFallback ==
  /\ entry = "fetchBedrockModels"
  /\ pc \in {"resolved", "rejected"}
  /\ \E setThrows \in BOOLEAN :
       LET stores == pc = "resolved" /\ Len(discovery.cliCommands) > 0
           caught == pc = "rejected" \/ (stores /\ setThrows)
       IN  /\ storage' = IF stores /\ ~setThrows
                           THEN Append(storage, provisioningInfo(discovery))
                           ELSE storage
           /\ returned' = IF caught THEN staticFallbackModels
                          ELSE fallbackModels(discovery)
           /\ returnPath' = IF caught THEN "static"
                            ELSE IF Len(discovery.availableModels) > 0
                              THEN "available"
                            ELSE "catalog"
  /\ pc' = "returned"
  /\ UNCHANGED <<entry, domParser, fanVars, discVars, discoverCalls, provisioningCalls,
                 replayVars, callVars, second>>

(***************************************************************************)
(* aws-model-discovery.ts : discoverAvailableModels                        *)
(***************************************************************************)

\* Lines 359-365: the answer to the documentation fetch, up to the
\* model-access request. discoverAvailableModels has no try block: an error
\* thrown by fetchLatestModelCatalog rejects it.
catalogStep(doc) ==
  /\ pc = "docs"
  /\ requests' = Append(requests, logged("", "docs", doc))
  /\ IF fetchLatestModelCatalog(doc).threw
       THEN /\ pc' = "rejected"
            /\ UNCHANGED catalogModels
       ELSE /\ pc' = "model-access"
            /\ catalogModels' = fetchLatestModelCatalog(doc).value
  /\ UNCHANGED <<entry, domParser, fanVars, region, accessStatuses, available,
                 discovery, discoverCalls, outVars, replayVars,
                 callVars, second>>

DiscoverCatalog == \E doc \in DocOutcomes : catalogStep(doc)

\* Lines 365-368 and 396-411: the answer to the model-access request, up to
\* the foundation-models request.
accessStep(o) ==
  /\ pc = "model-access"
  /\ requests' = Append(requests, logged(region, "model-access", o))
  /\ accessStatuses' = checkModelAccessStatus(modelIdsOf(catalogModels), o)
  /\ pc' = "available.foundation-models"
  /\ UNCHANGED <<entry, domParser, fanVars, region, catalogModels, available, discovery,
                 discoverCalls, outVars, replayVars,
                 callVars, second>>

DiscoverAccess == \E o \in EntitlementOutcomes : accessStep(o)

\* A result that keeps only the available identifiers the catalog lists.
discoverResultOfCatalog(availableModels) ==
  LET listed(id) == arrayIncludes(modelIdsOf(catalogModels), id)
  IN  [availableModels |-> SelectSeq(availableModels, listed),
       catalogModels |-> catalogModels,
       accessStatuses |-> accessStatuses,
       cliCommands |->
         generateAccessRequestCommands(modelsNeedingAccess(accessStatuses),
                                       region)]

\* A result whose commands are made for the available identifiers.
discoverResultOfAvailable(availableModels) ==
  [availableModels |-> availableModels,
   catalogModels |-> catalogModels,
   accessStatuses |-> accessStatuses,
   cliCommands |-> generateAccessRequestCommands(availableModels, region)]

\* Lines 370-386: the result, given the list fetchActuallyAvailableModels
\* returned.
discoverResult(availableModels) ==
  [availableModels |-> availableModels,
   catalogModels |-> catalogModels,
   accessStatuses |-> accessStatuses,
   cliCommands |->
     generateAccessRequestCommands(modelsNeedingAccess(accessStatuses),
                                   region)]

\* Line 442 and lines 370-386.
resolve(set) ==
  /\ discovery' = discoverResult(sort(set))
  /\ pc' = "resolved"

\* Lines 406-420 and 438-440: the answer to the foundation-models request.
\* An error thrown here skips the inference-profiles request.
availableFoundationStep(o) ==
  /\ pc = "available.foundation-models"
  /\ requests' = Append(requests, logged(region, "foundation-models", o))
  /\ IF throwsInTry(o)
       THEN /\ UNCHANGED available
            /\ resolve(available)
       ELSE /\ available' = IF o.ok
                              THEN setAddAll(available, foundationIds(o))
                              ELSE available
            /\ pc' = "available.inference-profiles"
            /\ UNCHANGED discovery
  /\ UNCHANGED <<entry, domParser, fanVars, region, catalogModels, accessStatuses,
                 discoverCalls, outVars, replayVars,
                 callVars, second>>

\* Lines 423-442: the answer to the inference-profiles request.
availableProfilesStep(o) ==
  /\ pc = "available.inference-profiles"
  /\ requests' = Append(requests, logged(region, "inference-profiles", o))
  /\ available' = IF ~throwsInTry(o) /\ o.ok
                    THEN setAddAll(available, profileIds(o))
                    ELSE available
  /\ resolve(available')
  /\ UNCHANGED <<entry, domParser, fanVars, region, catalogModels, accessStatuses,
                 discoverCalls, outVars, replayVars,
                 callVars, second>>

DiscoverFoundationModels ==
  \E o \in FoundationOutcomes(region) : availableFoundationStep(o)

DiscoverInferenceProfiles ==
  \E o \in ProfileOutcomes(region) : availableProfilesStep(o)

(***************************************************************************)
(* Replay: fetchBedrockModels called twice against fixed answers, the      *)
(* second time with the regions in any order                               *)
(***************************************************************************)

\* In a replay at most this many of the eight region queries fail, or all
\* of them do.
MaxFailures == 1

RegionSet == {MultiRegions[i] : i \in 1..Len(MultiRegions)}

Queries == RegionSet \X {"foundation-models", "inference-profiles"}

\* The failing queries and the failure of each.
FailureChoices ==
  UNION {[F -> Failures] :
           F \in {S \in SUBSET Queries : Cardinality(S) <= MaxFailures}}

answerOf(failed, r, url) ==
  IF <<r, url>> \in DOMAIN failed THEN failed[<<r, url>>]
  ELSE IF url = "foundation-models" THEN OkOutcome(ModelSummaries(r))
  ELSE OkOutcome(ProfileSummaries(r))

\* The fixed answers of a replay: of the two inventory queries and of the
\* /model-access query of each region, and of the documentation fetch.
upstreamOf(failed, doc, access) ==
  [k \in RegionSet \cup {"docs"} |->
     IF k = "docs" THEN doc
     ELSE [foundation |-> answerOf(failed, k, "foundation-models"),
           profiles |-> answerOf(failed, k, "inference-profiles"),
           access |-> access]]

\* Every query fails in the same way.
TotalFailures == {[q \in Queries |-> f] : f \in Failures}

\* With a query that answers the merge is not empty and the documentation
\* and /model-access are not asked; with none they answer in any way.
Upstreams ==
  {upstreamOf(failed, DocResponse(TRUE, DocModels), OkOutcome(<<>>)) :
     failed \in FailureChoices}
    \cup
  {upstreamOf(failed, doc, access) :
     failed \in TotalFailures, doc \in DocOutcomes,
     access \in EntitlementOutcomes}

\* The orders in which the regions of the list can be queried.
RegionOrders ==
  {order \in [1..Len(MultiRegions) -> RegionSet] :
     \A i, j \in 1..Len(MultiRegions) : order[i] = order[j] => i = j}

InitReplay ==
  /\ InitCommon
  /\ filters = NoFilters
  /\ NoCall
  /\ NoSecondRun
  /\ InitFetch
  /\ selectedRegion = "multi-region"
  /\ upstream \in Upstreams

ReplayFoundationModels ==
  /\ pc = "foundation-models"
  /\ foundationStep(upstream[regions[ri]].foundation)
  /\ UNCHANGED <<entry, domParser, discVars, discoverCalls, outVars, replayVars,
                 callVars, second>>

ReplayInferenceProfiles ==
  /\ pc = "inference-profiles"
  /\ profilesStep(upstream[regions[ri]].profiles)
  /\ UNCHANGED <<entry, domParser, discVars, discoverCalls, outVars, replayVars,
                 callVars, second>>

\* The fallback of lines 136-160 against the fixed answers.
ReplayCatalog == catalogStep(upstream["docs"])

ReplayAccess == accessStep(upstream[region].access)

ReplayAvailableFoundationModels ==
  availableFoundationStep(upstream[region].foundation)

ReplayAvailableInferenceProfiles ==
  availableProfilesStep(upstream[region].profiles)

\* The caller, which holds the list the first call returned, calls again:
\* the second call from its start (lines 31-38) to its first request. The
\* new call has returned nothing yet and has started no discovery run; the
\* extension storage keeps what the first call wrote.
RepeatCall ==
  /\ pc = "returned"
  /\ callNo = 1
  /\ callNo' = 2
  /\ firstModelIds' = returned
  /\ \E order \in RegionOrders : regions' = order
  /\ ri' = 1
  /\ allModels' = <<>>
  /\ modelIds' = <<>>
  /\ trace' = <<>>
  /\ returned' = <<>>
  /\ returnPath' = "none"
  /\ region' = ""
  /\ catalogModels' = <<>>
  /\ accessStatuses' = <<>>
  /\ available' = <<>>
  /\ requests' = <<>>
  /\ discovery' = <<>>
  /\ discoverCalls' = <<>>
  /\ pc' = "foundation-models"
  /\ UNCHANGED <<entry, domParser, selectedRegion, filters, storage,
                 provisioningCalls, upstream, callVars, second>>

\* Each call ends with the return of lines 131-135 or, when the merge is
\* empty, with a return of the fallback.
NextReplay ==
  \/ ReplayFoundationModels
  \/ ReplayInferenceProfiles
  \/ MergeModels
  \/ ReturnModelIds
  \/ StartDiscovery
  \/ ReplayCatalog
  \/ ReplayAccess
  \/ ReplayAvailableFoundationModels
  \/ ReplayAvailableInferenceProfiles
  \/ FinishFallback
  \/ RepeatCall

SpecReplay == InitReplay /\ [][NextReplay]_vars

Next ==
  \/ FetchFoundationModels
  \/ FetchInferenceProfiles
  \/ MergeModels
  \/ ReturnModelIds
  \/ StartDiscovery
  \/ FinishFallback
  \/ DiscoverCatalog
  \/ DiscoverAccess
  \/ DiscoverFoundationModels
  \/ DiscoverInferenceProfiles

Spec == Init /\ [][Next]_vars

(***************************************************************************)
(* Direct calls of single functions                                        *)
(***************************************************************************)

\* A direct call is the whole function in one step: pc goes from "call" to
\* "done" and result holds what was returned.
InitIdle ==
  /\ InitCommon
  /\ filters = NoFilters
  /\ NoSecondRun
  /\ upstream = AllOk
  /\ selectedRegion = ""
  /\ regions = <<>>
  /\ ri = 0
  /\ region = ""
  /\ discoverCalls = <<>>
  /\ pc = "call"
  /\ result = <<>>

idleVars ==
  <<entry, domParser, fanVars, discVars, discoverCalls, outVars, replayVars, args,
    second>>

\* The longest list of identifiers handed to a function called directly.
MaxIds == 3

\* Identifiers of three provider namespaces, and one without a dot.
CommandIds == {Sonnet45, NovaPro, Sonnet35, UsSonnet45, "titan"}

IdLists == UNION {[1..n -> CommandIds] : n \in 0..MaxIds}

InitGenerate ==
  /\ entry = "generateAccessRequestCommands"
  /\ args \in [modelIds : IdLists, region : DiscoverRegions]

CallGenerate ==
  /\ pc = "call"
  /\ entry = "generateAccessRequestCommands"
  /\ result' = generateAccessRequestCommands(args.modelIds, args.region)
  /\ pc' = "done"
  /\ UNCHANGED idleVars

\* String.prototype.startsWith.
startsWith(s, prefix) ==
  Len(s) >= Len(prefix) /\ SubSeq(s, 1, Len(prefix)) = prefix

\* !value for a string that may be absent.
falsy(value) == value = undefined \/ value = ""

\* throw new Error(message)
ThrowError(message) == [threw |-> TRUE, value |-> message]

\* The default region, whatever the model id.
bedrockRegionDefault(modelName) == "us-west-2"

\* helper.ts lines 690-697.
bedrockRegion(modelName) ==
  IF startsWith(modelName, "us.") THEN "us-west-2"
  ELSE IF startsWith(modelName, "eu.") THEN "eu-west-1"
  ELSE IF startsWith(modelName, "global.") THEN "us-east-1"
  ELSE "us-west-2"

\* helper.ts lines 676-711: the Bedrock case of createChatModel, up to the
\* arguments of new ChatBedrock. temperature, topP and maxTokens are handed
\* on from the configuration and are left out.
createChatModel(providerConfig, modelConfig) ==
  IF falsy(providerConfig.apiKey)
    THEN ThrowError("AWS Access Key ID is required for Bedrock")
  ELSE IF falsy(providerConfig.baseUrl)
    THEN ThrowError("AWS Secret Access Key is required for Bedrock "
                      \o "(stored in baseUrl field)")
  ELSE Return([model |-> modelConfig.modelName,
               region |-> bedrockRegion(modelConfig.modelName),
               credentials |->
                 [accessKeyId |-> providerConfig.apiKey,
                  secretAccessKey |-> providerConfig.baseUrl]])

GlobalSonnet45 == "global.anthropic.claude-sonnet-4-5-20250929-v1:0"

\* Model ids with each prefix, without one, with a prefix in upper case or
\* without its dot, and ids shorter than a prefix.
BedrockModelNames ==
  {UsSonnet45, EuSonnet45, GlobalSonnet45, Sonnet45, ApacSonnet35,
   "US.anthropic.claude-sonnet-4-5-20250929-v1:0", "eu-west.model",
   "anthropic.eu.model", "global", "us", ""}

ProviderConfigs ==
  [apiKey : {undefined, "", "AKIAEXAMPLE"},
   baseUrl : {undefined, "", "secret"}]

InitCreateChatModel ==
  /\ entry = "createChatModel"
  /\ args \in [providerConfig : ProviderConfigs,
               modelConfig : [provider : {"bedrock"},
                              modelName : BedrockModelNames]]

CallCreateChatModel ==
  /\ pc = "call"
  /\ entry = "createChatModel"
  /\ result' = createChatModel(args.providerConfig, args.modelConfig)
  /\ pc' = "done"
  /\ UNCHANGED idleVars

Opus4 == "anthropic.claude-opus-4-20250514-v1:0"

AccessIdLists == UNION {[1..n -> CommandIds \cup {Opus4}] : n \in 0..MaxIds}

\* The most identifiers the caller pushes onto its list while a call of
\* checkModelAccessStatus is pending.
MaxPushes == 1

\* checkModelAccessStatus called directly. modelIds is the caller's array,
\* passed by reference: passed is what it held at the call, modelIds what
\* it holds now. outcome is the answer the /model-access request will get.
InitCheckAccess ==
  /\ entry = "checkModelAccessStatus"
  /\ \E ids \in AccessIdLists, o \in EntitlementOutcomes :
       args = [modelIds |-> ids, passed |-> ids, outcome |-> o]

\* Lines 181-191: the function runs up to the await of signedFetch; the
\* array has not been read.
CallCheckAccess ==
  /\ pc = "call"
  /\ entry = "checkModelAccessStatus"
  /\ pc' = "awaiting-response"
  /\ UNCHANGED <<idleVars, result>>

\* Lines 191-198 and 211-225: signedFetch settles. A rejection goes to the
\* catch block, a response that is not ok to the return; both read the
\* array as it is now. A response that is ok waits for its body.
AnswerCheckAccess ==
  /\ pc = "awaiting-response"
  /\ entry = "checkModelAccessStatus"
  /\ IF args.outcome.kind = "response" /\ args.outcome.ok
       THEN /\ pc' = "awaiting-body"
            /\ UNCHANGED result
       ELSE /\ result' = checkModelAccessStatus(args.modelIds, args.outcome)
            /\ pc' = "done"
  /\ UNCHANGED idleVars

\* Lines 199-210 and 211-225: response.json() settles and the loop over
\* the array runs, in the try block or in the catch block.
ReadCheckAccess ==
  /\ pc = "awaiting-body"
  /\ entry = "checkModelAccessStatus"
  /\ result' = checkModelAccessStatus(args.modelIds, args.outcome)
  /\ pc' = "done"
  /\ UNCHANGED idleVars

\* While the function waits the caller runs, and may push an identifier
\* onto the array it passed.
CallerPushes ==
  /\ pc \in {"awaiting-response", "awaiting-body"}
  /\ entry = "checkModelAccessStatus"
  /\ Len(args.modelIds) < Len(args.passed) + MaxPushes
  /\ \E id \in CommandIds \cup {Opus4} :
       args' = [args EXCEPT !.modelIds = Append(@, id)]
  /\ UNCHANGED <<entry, domParser, pc, fanVars, discVars, discoverCalls, outVars,
                 replayVars, result, second>>

\* Identifiers with a date, without digits, and with digit runs shorter
\* and longer than 8 before, after or instead of a run of 8.
DatedIds ==
  {Sonnet45, Sonnet35, UsSonnet45, NovaPro, LegacyModel, Opus4, "",
   "20250929", "2025092", "model-1234567-v1", "model-2025092901-v1",
   "model-123-20250929", "model-202509291234-20241022-v1",
   "model-20250929-20241022", "a1b22c333d4444e55555f666666g7777777"}

InitInferReleaseDate ==
  /\ entry = "inferReleaseDate"
  /\ args \in [modelId : DatedIds]

CallInferReleaseDate ==
  /\ pc = "call"
  /\ entry = "inferReleaseDate"
  /\ result' = inferReleaseDate(args.modelId)
  /\ pc' = "done"
  /\ UNCHANGED idleVars

\* Identifiers of gated and ungated families, of Anthropic and of others.
FamilyIds ==
  {Sonnet45, UsSonnet45, Sonnet35, NovaPro, Opus4, LegacyModel, "",
   "anthropic.claude-haiku-4-5-20251001-v1:0", "anthropic.claude-4",
   "amazon.nova-premier-v1:0", "anthropic.claude-3-opus-20240229-v1:0",
   "anthropic.claude-3-haiku-20240307-v1:0", "claude-opus-4"}

\* Provider strings: the empty one of the heuristic tier, and catalog ones.
ProviderStrings == {"", "Anthropic", "ANTHROPIC", "anthropic", "Amazon", "Meta"}

InitRequiringAccess ==
  /\ entry = "isModelRequiringAccess"
  /\ args \in [modelId : FamilyIds, provider : ProviderStrings]

CallRequiringAccess ==
  /\ pc = "call"
  /\ entry = "isModelRequiringAccess"
  /\ result' = isModelRequiringAccess(args.modelId, args.provider)
  /\ pc' = "done"
  /\ UNCHANGED idleVars

\* The most data rows of a parsed table.
MaxRows == 3

\* Rows of 7, 6 and 5 cells, and rows whose provider or model id is blank
\* or empty.
TableRows ==
  { <<"Anthropic", "Claude Sonnet 4.5", " " \o Sonnet45 \o " ",
      "us-east-1  us-west-2 *", "Text, Image", "Text, Chat", "Yes">>,
    <<"Amazon", "Nova Pro", NovaPro, "us-east-1", "Text", "Text">>,
    <<"Amazon", "Titan Text Lite", LegacyModel, "us-east-1", "Text">>,
    <<"  ", "No provider", "nobody.model-v1:0",
      "us-east-1", "Text", "Text", "No">>,
    <<"Amazon", "No id", "", "us-east-1", "Text", "Text", "yes">>,
    <<" Anthropic ", "Claude Sonnet 4.5 (US)", UsSonnet45,
      "us-west-2", "Text, Image", "Text, Chat", "not yet">> }

ParsedDocuments ==
  {<< EndpointTable, [th |-> ModelTableHeaders, rows |-> rows] >> :
     rows \in UNION {[1..n -> TableRows] : n \in 0..MaxRows}}

InitParse ==
  /\ entry = "parseModelCatalogFromHTML"
  /\ args \in [html : ParsedDocuments]

CallParse ==
  /\ pc = "call"
  /\ entry = "parseModelCatalogFromHTML"
  /\ result' = parseModelCatalogFromHTML(args.html)
  /\ pc' = "done"
  /\ UNCHANGED idleVars

InitCalls ==
  /\ InitIdle
  /\ \/ InitGenerate
     \/ InitCreateChatModel
     \/ InitCheckAccess
     \/ InitInferReleaseDate
     \/ InitParse
     \/ InitRequiringAccess

NextCalls ==
  \/ CallGenerate
  \/ CallCreateChatModel
  \/ CallCheckAccess
  \/ AnswerCheckAccess
  \/ ReadCheckAccess
  \/ CallerPushes
  \/ CallInferReleaseDate
  \/ CallParse
  \/ CallRequiringAccess

SpecCalls == InitCalls /\ [][NextCalls]_vars

(***************************************************************************)
(* Two runs of discoverAvailableModels, interleaved at their requests      *)
(***************************************************************************)

\* The first run lives in the variables of a direct call; the locals of the
\* second are the fields of the record second. Each step of a run is the
\* code between two of its awaits, as for a single run.
PairDocOutcomes == {DocThrow, DocResponse(TRUE, DocModels)}

PairEntitlementOutcomes ==
  {ThrowOutcome, Non2xxOutcome, OkOutcome(<< grant(Sonnet35) >>)}

PairFoundationOutcomes(r) == {ThrowOutcome, OkOutcome(ModelSummaries(r))}

PairProfileOutcomes(r) == {MalformedOutcome, OkOutcome(ProfileSummaries(r))}

secondOtherVars ==
  <<entry, domParser, pc, fanVars, discVars, discoverCalls, outVars, replayVars,
    callVars>>

InitPair ==
  /\ InitCommon
  /\ filters = NoFilters
  /\ NoCall
  /\ upstream = AllOk
  /\ InitDiscover
  /\ region = "us-west-2"
  /\ \E r \in DiscoverRegions :
       second = [pc |-> "docs", region |-> r, catalogModels |-> <<>>,
                 accessStatuses |-> <<>>, available |-> <<>>,
                 requests |-> <<>>, discovery |-> <<>>]

\* Lines 359-362 in the second run.
secondCatalogStep(doc) ==
  /\ second.pc = "docs"
  /\ second' =
       IF fetchLatestModelCatalog(doc).threw
         THEN [second EXCEPT !.pc = "rejected",
                             !.requests = Append(@, logged("", "docs", doc))]
         ELSE [second EXCEPT !.pc = "model-access",
                             !.requests = Append(@, logged("", "docs", doc)),
                             !.catalogModels =
                               fetchLatestModelCatalog(doc).value]
  /\ UNCHANGED secondOtherVars

\* The second run resolving the statuses of the catalog of the first.
secondAccessStepShared(o) ==
  /\ second.pc = "model-access"
  /\ second' =
       [second EXCEPT
          !.pc = "available.foundation-models",
          !.requests = Append(@, logged(second.region, "model-access", o)),
          !.accessStatuses =
            checkModelAccessStatus(modelIdsOf(catalogModels), o)]
  /\ UNCHANGED secondOtherVars

\* Line 365 in the second run.
secondAccessStep(o) ==
  /\ second.pc = "model-access"
  /\ second' =
       [second EXCEPT
          !.pc = "available.foundation-models",
          !.requests = Append(@, logged(second.region, "model-access", o)),
          !.accessStatuses =
            checkModelAccessStatus(modelIdsOf(second.catalogModels), o)]
  /\ UNCHANGED secondOtherVars

\* Lines 370-386 and 442 for the locals of a run.
resultOf(run, set) ==
  [availableModels |-> sort(set),
   catalogModels |-> run.catalogModels,
   accessStatuses |-> run.accessStatuses,
   cliCommands |->
     generateAccessRequestCommands(modelsNeedingAccess(run.accessStatuses),
                                   run.region)]

\* Lines 406-420 and 438-440 in the second run.
secondFoundationStep(o) ==
  /\ second.pc = "available.foundation-models"
  /\ second' =
       IF throwsInTry(o)
         THEN [second EXCEPT
                 !.pc = "resolved",
                 !.requests =
                   Append(@, logged(second.region, "foundation-models", o)),
                 !.discovery = resultOf(second, second.available)]
         ELSE [second EXCEPT
                 !.pc = "available.inference-profiles",
                 !.requests =
                   Append(@, logged(second.region, "foundation-models", o)),
                 !.available =
                   IF o.ok THEN setAddAll(@, foundationIds(o)) ELSE @]
  /\ UNCHANGED secondOtherVars

\* Lines 423-442 in the second run.
secondProfilesStep(o) ==
  /\ second.pc = "available.inference-profiles"
  /\ LET set == IF ~throwsInTry(o) /\ o.ok
                  THEN setAddAll(second.available, profileIds(o))
                  ELSE second.available
     IN  second' =
           [second EXCEPT
              !.pc = "resolved",
              !.requests =
                Append(@, logged(second.region, "inference-profiles", o)),
              !.available = set,
              !.discovery = resultOf(second, set)]
  /\ UNCHANGED secondOtherVars

SecondCatalog == \E doc \in PairDocOutcomes : secondCatalogStep(doc)

SecondAccess == \E o \in PairEntitlementOutcomes : secondAccessStep(o)

SecondFoundationModels ==
  \E o \in PairFoundationOutcomes(second.region) : secondFoundationStep(o)

SecondInferenceProfiles ==
  \E o \in PairProfileOutcomes(second.region) : secondProfilesStep(o)

FirstCatalog == \E doc \in PairDocOutcomes : catalogStep(doc)

FirstAccess == \E o \in PairEntitlementOutcomes : accessStep(o)

FirstFoundationModels ==
  \E o \in PairFoundationOutcomes(region) : availableFoundationStep(o)

FirstInferenceProfiles ==
  \E o \in PairProfileOutcomes(region) : availableProfilesStep(o)

NextPair ==
  \/ FirstCatalog
  \/ FirstAccess
  \/ FirstFoundationModels
  \/ FirstInferenceProfiles
  \/ SecondCatalog
  \/ SecondAccess
  \/ SecondFoundationModels
  \/ SecondInferenceProfiles

SpecPair == InitPair /\ [][NextPair]_vars

(***************************************************************************)
(* helper.ts : generateBedrockProvisioningFiles                            *)
(***************************************************************************)

\* What createProvisioningFiles answers. The generator is a synchronous
\* function from the identifiers and options to named text artifacts: line
\* 218 calls it without await and line 221 counts the keys of what it
\* returned. It throws, or returns a map from file names to texts (here the
\* names, in order), possibly an empty one.
ProvisioningFileOutcomes ==
  { Throw,
    Return(<<>>),
    Return(<<"provision-bedrock-access.sh">>),
    Return(<<"provision-bedrock-access.sh", "provision-bedrock-access.ps1",
             "manual-provisioning-instructions.md", "dry-run-provision.sh">>) }

\* Lines 215-216: the options of the call.
provisioningOptions(r) ==
  [region |-> r,
   reason |-> "Automated access request for Nanobrowser AI extension"]

\* The value of the function when an error thrown by the generator is not
\* caught.
provisioningFilesUncaught(rejected, needing, o) ==
  IF rejected THEN Return(<<>>)
  ELSE IF Len(needing) = 0 THEN Return(<<>>)
  ELSE o

\* Lines 200-228: the value of generateBedrockProvisioningFiles, given
\* whether discoverAvailableModels rejected, the identifiers of line 205
\* and the answer of createProvisioningFiles.
provisioningFiles(rejected, needing, o) ==
  IF rejected THEN Return(<<>>)
  ELSE IF Len(needing) = 0 THEN Return(<<>>)
  ELSE IF o.threw THEN Return(<<>>)
  ELSE Return(o.value)

\* Line 203: the function starts with a run of discoverAvailableModels for
\* its region.
InitProvision ==
  /\ entry = "generateBedrockProvisioningFiles"
  /\ selectedRegion = ""
  /\ regions = <<>>
  /\ ri = 0
  /\ pc = "docs"
  /\ region \in DiscoverRegions
  /\ discoverCalls = <<region>>
  /\ args = [region |-> region]
  /\ result = <<>>

\* Lines 204-228: what follows the end of the discovery run.
FinishProvisioning ==
  /\ entry = "generateBedrockProvisioningFiles"
  /\ pc \in {"resolved", "rejected"}
  /\ \E o \in ProvisioningFileOutcomes :
       LET rejected == pc = "rejected"
           needing ==
             IF rejected THEN <<>>
             ELSE modelIdsOf(SelectSeq(discovery.accessStatuses, needsAccess))
           calls == ~rejected /\ Len(needing) > 0
       IN  /\ provisioningCalls' =
                IF calls
                  THEN Append(provisioningCalls,
                              [modelIds |-> needing,
                               options |-> provisioningOptions(args.region),
                               outcome |-> o])
                  ELSE provisioningCalls
           /\ result' = provisioningFiles(rejected, needing, o)
  /\ pc' = "returned"
  /\ UNCHANGED <<entry, domParser, fanVars, discVars, discoverCalls, storage, returned,
                 returnPath, replayVars, args, second>>

InitProvisioning ==
  /\ InitCommon
  /\ filters = NoFilters
  /\ NoSecondRun
  /\ upstream = AllOk
  /\ InitProvision

NextProvisioning ==
  \/ DiscoverCatalog
  \/ DiscoverAccess
  \/ DiscoverFoundationModels
  \/ DiscoverInferenceProfiles
  \/ FinishProvisioning

SpecProvisioning == InitProvisioning /\ [][NextProvisioning]_vars

(***************************************************************************)
(* fetchBedrockModels called with filters                                  *)
(***************************************************************************)

\* The filters argument: each filter absent or supplied.
FilterSets ==
  [provider : {undefined, "Anthropic", "Amazon"},
   outputModality : {undefined, "TEXT"},
   inferenceType : {undefined, "PROVISIONED"},
   customizationType : {undefined, "FINE_TUNING"}]

InitFilters ==
  /\ InitCommon
  /\ NoCall
  /\ NoSecondRun
  /\ InitFetch
  /\ filters \in FilterSets
  /\ upstream = AllOk

NextFilters ==
  \/ ReplayFoundationModels
  \/ ReplayInferenceProfiles
  \/ MergeModels
  \/ ReturnModelIds
  \/ StartDiscovery
  \/ DiscoverCatalog
  \/ DiscoverAccess
  \/ DiscoverFoundationModels
  \/ DiscoverInferenceProfiles
  \/ FinishFallback

SpecFilters == InitFilters /\ [][NextFilters]_vars

(***************************************************************************)
(* Properties                                                              *)
(***************************************************************************)

asSet(list) == {list[i] : i \in 1..Len(list)}

\* The region a fallback discovery is to run for.
primaryRegionOf(selected) ==
  CASE selected = "multi-region" -> "us-west-2"
    [] OTHER -> selected

isList(v) == DOMAIN v = 1..Len(v)

\* Ascending in code-unit order, without duplicates.
Ascending(list) ==
  \A i, j \in 1..Len(list) : i < j => strLess(list[i], list[j])

\* A logged request that was answered 2xx with a readable body.
succeeded(e) ==
  e.outcome.kind = "response" /\ e.outcome.ok /\ ~e.outcome.malformed

\* A logged request that threw or was answered non-2xx.
failedRequest(e) == e.outcome.kind = "throw" \/ ~e.outcome.ok

summaryId(e, i) ==
  IF e.url = "foundation-models" THEN e.outcome.body[i].modelId
  ELSE e.outcome.body[i].inferenceProfileId

\* The identifiers the answer of a logged inventory request reports ACTIVE.
ActiveIds(e) ==
  {summaryId(e, i) :
     i \in {j \in 1..Len(e.outcome.body) : e.outcome.body[j].status = "ACTIVE"}}

\* Those of them that are invokable: ACTIVE and, for a foundation model,
\* with TEXT among the output modalities.
InvokableIds(e) ==
  {summaryId(e, i) :
     i \in {j \in 1..Len(e.outcome.body) :
              /\ e.outcome.body[j].status = "ACTIVE"
              /\ e.url = "foundation-models" =>
                   "TEXT" \in asSet(e.outcome.body[j].outputModalities)}}

\* The region loop of fetchBedrockModels has ended.
LoopDone ==
  \/ pc \in {"merge", "merged"}
  \/ pc = "returned" /\ returnPath = "api"

DiscoveryWaiting ==
  pc \in {"docs", "model-access", "available.foundation-models",
          "available.inference-profiles"}

DiscoveryFields ==
  {"availableModels", "catalogModels", "accessStatuses", "cliCommands"}

\* The result of a discovery run holds the four fields, each a list.
WellFormed(d) ==
  /\ DOMAIN d = DiscoveryFields
  /\ isList(d.availableModels)
  /\ isList(d.catalogModels)
  /\ isList(d.accessStatuses)
  /\ isList(d.cliCommands)

\* The discovery run is where the answers logged so far lead when none of
\* them makes it raise: waiting for the next request, or resolved.
OnCourse ==
  CASE Len(requests) = 0 -> pc = "docs"
    [] Len(requests) = 1 -> pc = "model-access"
    [] Len(requests) = 2 -> pc = "available.foundation-models"
    [] Len(requests) = 3 ->
         IF throwsInTry(requests[3].outcome) THEN pc = "resolved"
         ELSE pc = "available.inference-profiles"
    [] OTHER -> pc = "resolved"

\* C1: discoverAvailableModels never raises and always returns a result
\* with the four fields: whatever the documentation fetch, the entitlement
\* query and the two availability queries have answered, the run is not
\* rejected but waits for its next request or has resolved, and what it
\* resolves with is well formed.
C1_DiscoverIsTotal ==
  /\ pc /= "rejected"
  /\ (DiscoveryWaiting \/ pc = "resolved") => OnCourse
  /\ (pc = "resolved" \/ DOMAIN discovery /= {}) => WellFormed(discovery)

\* A run that resolved although the body of the documentation could not be
\* read, the entitlement query was answered non-2xx, and the profile query
\* answered with a malformed body.
C1_Witness ==
  /\ pc = "resolved"
  /\ entry = "discoverAvailableModels"
  /\ Len(requests) = 4
  /\ requests[1].outcome = DocBadBody
  /\ requests[2].outcome = Non2xxOutcome
  /\ succeeded(requests[3])
  /\ requests[4].outcome = MalformedOutcome
  /\ DOMAIN discovery = DiscoveryFields

\* The entitlement query of the discovery run has been answered.
AccessResolved ==
  pc \in {"available.foundation-models", "available.inference-profiles",
          "resolved"}

\* C2: checkModelAccessStatus returns exactly one status per requested
\* identifier, in input order and with the same modelId, whatever the
\* outcome of the entitlement query; so accessStatuses has one entry per
\* catalog entry.
C2_OneStatusPerIdentifier ==
  AccessResolved =>
    /\ Len(accessStatuses) = Len(catalogModels)
    /\ \A i \in 1..Len(accessStatuses) :
         accessStatuses[i].modelId = catalogModels[i].modelId

\* C3: every status the resolver produces has hasAccess = TRUE only
\* together with accessStatus = GRANTED.
C3_AccessImpliesGranted ==
  \A i \in 1..Len(accessStatuses) :
    accessStatuses[i].hasAccess => accessStatuses[i].accessStatus = "GRANTED"

\* The documentation fetch of the discovery run has been answered.
CatalogAcquired == Len(requests) >= 1 /\ requests[1].url = "docs"

\* C4: when the documentation fetch succeeds and the document has no table
\* with both headers, fetchLatestModelCatalog returns the static fallback
\* catalog and raises nothing.
C4_NoTableGivesFallback ==
  ( /\ CatalogAcquired
    /\ requests[1].outcome.kind = "response"
    /\ requests[1].outcome.ok
    /\ modelTable(requests[1].outcome.html) = 0 ) =>
      /\ pc /= "rejected"
      /\ catalogModels = getFallbackModelCatalog

FallbackCatalogIds ==
  << "anthropic.claude-sonnet-4-5-20250929-v1:0",
     "anthropic.claude-haiku-4-5-20251001-v1:0",
     "anthropic.claude-sonnet-4-20250514-v1:0",
     "anthropic.claude-opus-4-20250514-v1:0",
     "us.anthropic.claude-sonnet-4-5-20250929-v1:0",
     "eu.anthropic.claude-sonnet-4-5-20250929-v1:0" >>

\* C5: when the documentation fetch raises a transport error,
\* fetchLatestModelCatalog returns exactly the static fallback catalog, the
\* same six descriptors each time.
C5_TransportErrorGivesFallback ==
  (CatalogAcquired /\ requests[1].outcome.kind = "throw") =>
    /\ pc /= "rejected"
    /\ catalogModels = getFallbackModelCatalog
    /\ modelIdsOf(catalogModels) = FallbackCatalogIds
    /\ \A i \in 1..Len(catalogModels) :
         /\ catalogModels[i].provider = "Anthropic"
         /\ catalogModels[i].requiresAccess
         /\ catalogModels[i].status = "ACTIVE"

\* A run whose documentation fetch threw and that went on with the six
\* fallback descriptors to the end.
C5_Witness ==
  /\ CatalogAcquired
  /\ requests[1].outcome = DocThrow
  /\ pc = "resolved"
  /\ Len(discovery.catalogModels) = 6
  /\ discovery.catalogModels = getFallbackModelCatalog

AllRegionsQueried ==
  \A k \in 1..Len(regions) :
    \E i \in 1..Len(trace) :
      trace[i].region = regions[k] /\ trace[i].url = "foundation-models"

\* C6 as stated: after a failure of any query in one region the remaining
\* regions are still queried, and every identifier a successful query of
\* another region reports ACTIVE is in the merged set.
C6_ActiveOfOtherRegionsMerged ==
  LoopDone =>
    \A i \in 1..Len(trace) :
      ~succeeded(trace[i]) =>
        /\ AllRegionsQueried
        /\ \A j \in 1..Len(trace) :
             (trace[j].region /= trace[i].region /\ succeeded(trace[j])) =>
               ActiveIds(trace[j]) \subseteq asSet(allModels)

\* C6 amended: after a failure of any query in one region the remaining
\* regions are still queried, and every identifier a successful query of
\* another region reports ACTIVE and, for a foundation model, with TEXT
\* output, is in the merged set.
C6_InvokableOfOtherRegionsMerged ==
  LoopDone =>
    \A i \in 1..Len(trace) :
      ~succeeded(trace[i]) =>
        /\ AllRegionsQueried
        /\ \A j \in 1..Len(trace) :
             (trace[j].region /= trace[i].region /\ succeeded(trace[j])) =>
               InvokableIds(trace[j]) \subseteq asSet(allModels)

\* The first region's foundation-models request threw, and a later region
\* answered both queries: its model and its profile are in the merged set.
C6_Witness ==
  /\ pc = "merge"
  /\ Len(regions) = 4
  /\ trace[1].outcome = ThrowOutcome
  /\ \E j, k \in 2..Len(trace) :
       /\ trace[j].region = "us-east-1"
       /\ trace[k].region = "us-east-1"
       /\ j /= k
       /\ succeeded(trace[j])
       /\ succeeded(trace[k])
  /\ {NovaPro, Sonnet35, UsSonnet45} \subseteq asSet(allModels)

\* The entries of a log for one region and one query.
entriesOf(log, r, url) ==
  {i \in 1..Len(log) : log[i].region = r /\ log[i].url = url}

\* In a log, the two queries of each region do not depend on each other:
\* after a failed foundation-models request the inference-profiles request
\* of the region is issued and its ACTIVE profiles are in the set; after a
\* failed inference-profiles request the models of the region's
\* foundation-models answer are in the set.
QueriesIndependent(log, set) ==
  \A i \in 1..Len(log) :
    /\ (log[i].url = "foundation-models" /\ failedRequest(log[i])) =>
         /\ entriesOf(log, log[i].region, "inference-profiles") /= {}
         /\ \A j \in entriesOf(log, log[i].region, "inference-profiles") :
              succeeded(log[j]) => InvokableIds(log[j]) \subseteq asSet(set)
    /\ (log[i].url = "inference-profiles" /\ failedRequest(log[i])) =>
         \A j \in entriesOf(log, log[i].region, "foundation-models") :
           succeeded(log[j]) => InvokableIds(log[j]) \subseteq asSet(set)

\* C7: within one region a failure (thrown error or non-2xx answer) of the
\* foundation-models query does not keep the inference-profiles query from
\* being issued and merged, and a failure of the profile query does not
\* discard the foundation models; in fetchBedrockModels and in the
\* availability step of discoverAvailableModels.
C7_QueriesOfARegionIndependent ==
  /\ LoopDone => QueriesIndependent(trace, allModels)
  /\ pc = "resolved" => QueriesIndependent(requests, discovery.availableModels)

\* The identifiers the successful queries of a log contributed.
Contributed(log) ==
  UNION {InvokableIds(log[i]) : i \in {j \in 1..Len(log) : succeeded(log[j])}}

\* C8: for fixed answers of the regions the merged list of the fan-out is
\* the ascending list of the identifiers the successful queries contributed,
\* and a call that returns the merged list (lines 131-135) returns the same
\* list when it is repeated with the regions queried in another order. A
\* call whose merge is empty returns a list of the fallback instead, which
\* is not the fan-out's.
C8_OrderIndependent ==
  /\ pc = "merged" =>
       /\ Ascending(modelIds)
       /\ asSet(modelIds) = Contributed(trace)
  /\ (pc = "returned" /\ returnPath = "api") =>
       /\ Ascending(modelIds)
       /\ asSet(modelIds) = Contributed(trace)
       /\ returned = modelIds
       /\ callNo = 2 => returned = firstModelIds

\* A repeated call in an order other than the first call's, with a failed
\* query, whose Set had to be reordered by the sort.
C8_Witness ==
  /\ pc = "returned"
  /\ returnPath = "api"
  /\ callNo = 2
  /\ regions /= MultiRegions
  /\ regions[1] = "ap-northeast-1"
  /\ \E i \in 1..Len(trace) : ~succeeded(trace[i])
  /\ Len(modelIds) >= 3
  /\ modelIds /= allModels
  /\ returned = firstModelIds

\* C9: every list returned as the available set is ascending and free of
\* duplicates: availableModels of every discovery result and the list
\* fetchBedrockModels returns, on each of its return paths.
C9_AvailableListsAscending ==
  /\ pc = "resolved" => Ascending(discovery.availableModels)
  /\ pc = "returned" => Ascending(returned)

\* C10: when the merged set is empty fetchBedrockModels raises nothing: it
\* calls discoverAvailableModels exactly once, for the primary region, goes
\* on whatever that run's requests answer, and returns a list.
C10_EmptyMergeFallsBack ==
  entry = "fetchBedrockModels" =>
    /\ (pc = "merged" /\ Len(modelIds) = 0) => ENABLED StartDiscovery
    /\ DiscoveryWaiting =>
         /\ discoverCalls = <<primaryRegionOf(selectedRegion)>>
         /\ region = primaryRegionOf(selectedRegion)
    /\ pc \in {"resolved", "rejected"} => ENABLED FinishFallback
    /\ (pc = "returned" /\ returnPath /= "api") =>
         /\ Len(modelIds) = 0
         /\ discoverCalls = <<primaryRegionOf(selectedRegion)>>
         /\ isList(returned)
         /\ returned \in {discovery.availableModels,
                          modelIdsOf(discovery.catalogModels),
                          staticFallbackModels}
    /\ (pc = "returned" /\ returnPath = "api") => discoverCalls = <<>>

\* A multi-region call whose queries all failed, and which returned the
\* identifiers of the catalog after one discovery run for us-west-2.
C10_Witness ==
  /\ entry = "fetchBedrockModels"
  /\ selectedRegion = "multi-region"
  /\ pc = "returned"
  /\ returnPath = "catalog"
  /\ discoverCalls = <<"us-west-2">>
  /\ Len(returned) > 0
  /\ \E i \in 1..Len(requests) : requests[i].outcome = ThrowOutcome


\* No availability request of the discovery run was answered with a
\* readable inventory.
AvailabilityDown ==
  \A i \in 1..Len(requests) :
    requests[i].url \in {"foundation-models", "inference-profiles"} =>
      ~succeeded(requests[i])

\* C11: when the live inventory calls fail in every queried region (the
\* merge of the region loop is empty and the availability queries of the
\* fallback discovery fail too), fetchBedrockModels returns a non-empty
\* list of identifiers, from the documentation catalog or the static list,
\* whatever the documentation fetch and the entitlement query answered.
C11_FallbackListNonEmpty ==
  ( /\ entry = "fetchBedrockModels"
    /\ pc = "returned"
    /\ Len(modelIds) = 0
    /\ AvailabilityDown ) =>
      /\ returnPath \in {"catalog", "static"}
      /\ Len(returned) > 0


\* The substring of an identifier before its first '.', the whole
\* identifier when it has none.
namespaceOf(id) ==
  LET dots == {i \in 1..Len(id) : charAt(id, i) = "."}
  IN  IF dots = {} THEN id
      ELSE SubSeq(id, 1, (CHOOSE i \in dots : \A j \in dots : i <= j) - 1)

\* The positions of a list at which a namespace occurs for the first time.
firstEncounters(ids) ==
  {i \in 1..Len(ids) :
     \A j \in 1..(i - 1) : namespaceOf(ids[j]) /= namespaceOf(ids[i])}

\* The k-th of them.
encounter(ids, k) ==
  CHOOSE i \in firstEncounters(ids) :
    Cardinality({j \in firstEncounters(ids) : j <= i}) = k

\* The identifiers of a namespace, in the order of the list.
membersOf(ids, ns) ==
  LET inNamespace(id) == namespaceOf(id) = ns
  IN  SelectSeq(ids, inNamespace)

RECURSIVE quotedList(_)
quotedList(ids) ==
  IF Len(ids) = 0 THEN ""
  ELSE IF Len(ids) = 1 THEN "\"" \o ids[1] \o "\""
  ELSE "\"" \o ids[1] \o "\" " \o quotedList(Tail(ids))

GenerateDone == entry = "generateAccessRequestCommands" /\ pc = "done"

\* C12: generateAccessRequestCommands emits one group of six lines per
\* distinct namespace of the list; the groups come in the order in which
\* the namespaces are first met, and each group names the identifiers of
\* its namespace in their order in the list.
C12_OneGroupPerNamespace ==
  GenerateDone =>
    LET ids == args.modelIds
        n == Cardinality(firstEncounters(ids))
    IN  /\ Len(result) = 6 * n
        /\ n = Cardinality({namespaceOf(ids[i]) : i \in 1..Len(ids)})
        /\ \A k \in 1..n :
             LET ns == namespaceOf(ids[encounter(ids, k)])
             IN  /\ result[6 * (k - 1) + 1] =
                      "# Request access for " \o ns \o " models"
                 /\ result[6 * (k - 1) + 3] =
                      "  --region " \o args.region \o " \\"
                 /\ result[6 * (k - 1) + 4] =
                      "  --model-ids " \o quotedList(membersOf(ids, ns))
                        \o " \\"

\* A call with two namespaces interleaved: anthropic, amazon, anthropic.
C12_Witness ==
  /\ GenerateDone
  /\ args.modelIds = <<Sonnet45, NovaPro, Sonnet35>>
  /\ Len(result) = 12
  /\ result[1] = "# Request access for anthropic models"
  /\ result[7] = "# Request access for amazon models"


\* C13: in a discovery result cliCommands is empty exactly when every
\* status has hasAccess = TRUE or canRequestAccess = FALSE; an empty gap
\* list gives the empty command sequence and the run resolves.
C13_CommandsEmptyIffNoGap ==
  pc = "resolved" =>
    /\ isList(discovery.cliCommands)
    /\ Len(discovery.cliCommands) = 0 <=>
         \A i \in 1..Len(discovery.accessStatuses) :
           \/ discovery.accessStatuses[i].hasAccess
           \/ ~discovery.accessStatuses[i].canRequestAccess

\* A result whose four catalog entries are all granted, and so without
\* commands.
C13_Witness ==
  /\ pc = "resolved"
  /\ Len(discovery.accessStatuses) = 4
  /\ \A i \in 1..4 : discovery.accessStatuses[i].hasAccess
  /\ discovery.cliCommands = <<>>


\* The availability requests of the discovery run that were answered 2xx
\* with a readable inventory.
AvailabilityAnswers ==
  {i \in 1..Len(requests) :
     /\ requests[i].url \in {"foundation-models", "inference-profiles"}
     /\ succeeded(requests[i])}

\* C14: availableModels of a discovery result is not filtered by the
\* catalog: every identifier a successful availability query reports ACTIVE
\* is in it, whether the catalog lists it or not, and the catalog and the
\* access statuses do not influence it.
C14_ActiveIsAvailable ==
  pc = "resolved" =>
    UNION {ActiveIds(requests[i]) : i \in AvailabilityAnswers}
      \subseteq asSet(discovery.availableModels)

\* C14, for the identifiers that are invokable: every identifier a
\* successful availability query reports ACTIVE and, for a foundation
\* model, with TEXT among its output modalities is in availableModels,
\* whether the catalog lists it or not; availableModels holds nothing else,
\* so the catalog and the access statuses do not influence it.
C14_InvokableIsAvailable ==
  pc = "resolved" =>
    asSet(discovery.availableModels) =
      UNION {InvokableIds(requests[i]) : i \in AvailabilityAnswers}

\* A result with the fallback catalog whose availableModels holds an
\* identifier that catalog does not list.
C14_Witness ==
  /\ pc = "resolved"
  /\ requests[1].outcome = DocThrow
  /\ discovery.catalogModels = getFallbackModelCatalog
  /\ Sonnet35 \in asSet(discovery.availableModels)
  /\ ~arrayIncludes(modelIdsOf(discovery.catalogModels), Sonnet35)
  /\ Len(discovery.accessStatuses) = 0


\* What a run of discoverAvailableModels for region r returns when nothing
\* else runs between its requests, given the answers log to its requests.
aloneResult(r, log) ==
  LET catalog == fetchLatestModelCatalog(log[1].outcome).value
      statuses == checkModelAccessStatus(modelIdsOf(catalog), log[2].outcome)
      answered(i) ==
        i <= Len(log) /\ ~throwsInTry(log[i].outcome) /\ log[i].outcome.ok
      models == IF answered(3) THEN foundationIds(log[3].outcome) ELSE <<>>
      profiles == IF answered(4) THEN profileIds(log[4].outcome) ELSE <<>>
  IN  [availableModels |-> sort(setAddAll(setAddAll(<<>>, models), profiles)),
       catalogModels |-> catalog,
       accessStatuses |-> statuses,
       cliCommands |->
         generateAccessRequestCommands(modelsNeedingAccess(statuses), r)]

firstRun == <<pc, discVars>>

\* C15: two runs of discoverAvailableModels interleaved at their requests
\* are independent: each resolves with what it returns when run alone
\* against the same answers, and a step of one run leaves the locals of the
\* other as they are.
C15_InterleavedRunsIndependent ==
  /\ [](pc = "resolved" => discovery = aloneResult(region, requests))
  /\ [](second.pc = "resolved" =>
          second.discovery = aloneResult(second.region, second.requests))
  /\ [][(second' /= second => firstRun' = firstRun)
        /\ (firstRun' /= firstRun => second' = second)]_vars

\* Both runs resolved, one with the fallback catalog and no statuses, the
\* other with the parsed catalog and four statuses, while the other run
\* was under way.
C15_Witness ==
  /\ pc = "resolved"
  /\ second.pc = "resolved"
  /\ second.region = "ap-northeast-1"
  /\ discovery.catalogModels = getFallbackModelCatalog
  /\ Len(discovery.accessStatuses) = 0
  /\ Len(second.discovery.catalogModels) = 4
  /\ Len(second.discovery.accessStatuses) = 4
  /\ discovery.availableModels /= second.discovery.availableModels


CreateChatModelDone == entry = "createChatModel" /\ pc = "done"

\* The text of an identifier up to and including its first '.', the empty
\* string when it has none.
prefixOf(id) ==
  LET dots == {i \in 1..Len(id) : charAt(id, i) = "."}
  IN  IF dots = {} THEN ""
      ELSE SubSeq(id, 1, CHOOSE i \in dots : \A j \in dots : i <= j)

\* C16: createChatModel for Bedrock takes the region from the prefix of the
\* model id: us. gives us-west-2, eu. gives eu-west-1, global. gives
\* us-east-1 and anything else us-west-2; when the access key id or the
\* secret access key is missing it throws and builds no client.
C16_RegionFromPrefix ==
  CreateChatModelDone =>
    LET config == args.providerConfig
        name == args.modelConfig.modelName
        missing(v) == v = undefined \/ v = ""
    IN  IF missing(config.apiKey) \/ missing(config.baseUrl)
          THEN result.threw
          ELSE /\ ~result.threw
               /\ result.value.model = name
               /\ result.value.credentials.accessKeyId = config.apiKey
               /\ result.value.credentials.secretAccessKey = config.baseUrl
               /\ result.value.region =
                    CASE prefixOf(name) = "us." -> "us-west-2"
                      [] prefixOf(name) = "eu." -> "eu-west-1"
                      [] prefixOf(name) = "global." -> "us-east-1"
                      [] OTHER -> "us-west-2"

\* A client built for an eu. profile, in eu-west-1.
C16_Witness ==
  /\ CreateChatModelDone
  /\ args.modelConfig.modelName = EuSonnet45
  /\ ~result.threw
  /\ result.value.region = "eu-west-1"


CheckAccessDone == entry = "checkModelAccessStatus" /\ pc = "done"

\* The outcome of a request: answered 2xx with a readable body.
answeredOk(o) == o.kind = "response" /\ o.ok /\ ~o.malformed

\* C17: when the entitlement query succeeds, each requested identifier is
\* GRANTED with hasAccess = TRUE exactly when it is among the granted
\* identifiers of the response, otherwise NOT_REQUESTED with hasAccess =
\* FALSE, and canRequestAccess is TRUE for each. The requested identifiers
\* are those of the caller's list when the function reads it, after the
\* answer: every identifier passed at the call, and any pushed since.
C17_LiveTierFollowsGrants ==
  (CheckAccessDone /\ answeredOk(args.outcome)) =>
    LET ids == args.modelIds
        granted == {args.outcome.body[j].modelId :
                      j \in 1..Len(args.outcome.body)}
    IN  /\ Len(result) = Len(ids)
        /\ \A i \in 1..Len(args.passed) : result[i].modelId = args.passed[i]
        /\ \A i \in 1..Len(ids) :
             /\ result[i].modelId = ids[i]
             /\ result[i].canRequestAccess
             /\ result[i].hasAccess <=> ids[i] \in granted
             /\ result[i].accessStatus =
                  IF ids[i] \in granted THEN "GRANTED" ELSE "NOT_REQUESTED"

\* A call for a granted identifier, with a missing one pushed while the
\* request was pending.
C17_Witness ==
  /\ CheckAccessDone
  /\ args.passed = <<Sonnet35>>
  /\ args.modelIds = <<Sonnet35, Opus4>>
  /\ args.outcome = OkOutcome(<< grant(Sonnet35), grant(Sonnet45) >>)
  /\ result[1].accessStatus = "GRANTED"
  /\ result[2].accessStatus = "NOT_REQUESTED"

\* Whether an identifier matches a pattern of the gated families.
GatedPatterns ==
  {"claude-4", "opus-4", "sonnet-4", "haiku-4", "nova-premier", "nova-pro"}

matchesGated(id) ==
  \E p \in GatedPatterns :
    \E i \in 1..Len(id) : i + Len(p) - 1 <= Len(id)
                            /\ SubSeq(id, i, i + Len(p) - 1) = p

\* C18: when the entitlement query fails, by a thrown error or by a
\* non-2xx response alike, the heuristic tier classifies every requested
\* identifier: one that matches a gated-family pattern gets hasAccess =
\* FALSE, NOT_REQUESTED and canRequestAccess = TRUE, one that matches none
\* gets hasAccess = TRUE.
C18_HeuristicTierOnFailure ==
  (CheckAccessDone /\ (args.outcome.kind = "throw" \/ ~args.outcome.ok)) =>
    /\ Len(result) = Len(args.modelIds)
    /\ \A i \in 1..Len(result) :
         /\ result[i].modelId = args.modelIds[i]
         /\ result[i].hasAccess <=> ~matchesGated(args.modelIds[i])
         /\ matchesGated(args.modelIds[i]) =>
              /\ result[i].accessStatus = "NOT_REQUESTED"
              /\ result[i].canRequestAccess


\* C19: every descriptor of a catalog fetchLatestModelCatalog returns,
\* parsed or fallback, has requiresAccess equal to the gated-family
\* predicate of its modelId and provider and releaseDate equal to the date
\* derived from its modelId; enriching a returned catalog again changes
\* nothing.
C19_DerivedFieldsConsistent ==
  (CatalogAcquired /\ pc /= "rejected") =>
    /\ \A i \in 1..Len(catalogModels) :
         /\ DOMAIN catalogModels[i] = DOMAIN getFallbackModelCatalog[1]
         /\ catalogModels[i].requiresAccess =
              isModelRequiringAccess(catalogModels[i].modelId,
                                     catalogModels[i].provider)
         /\ catalogModels[i].releaseDate =
              inferReleaseDate(catalogModels[i].modelId)
    /\ enhanceModelMetadata(catalogModels) = catalogModels

\* The parsed catalog: a dated model that needs no access, and a gated one
\* whose id holds no date.
C19_Witness ==
  /\ CatalogAcquired
  /\ requests[1].outcome = DocResponse(TRUE, DocModels)
  /\ Len(catalogModels) = 4
  /\ catalogModels[2].modelId = Sonnet35
  /\ catalogModels[2].releaseDate = "2024-10-22"
  /\ ~catalogModels[2].requiresAccess
  /\ catalogModels[3].modelId = NovaPro
  /\ catalogModels[3].releaseDate = undefined
  /\ catalogModels[3].requiresAccess


InferReleaseDateDone == entry = "inferReleaseDate" /\ pc = "done"

digitAt(id, i) ==
  /\ i >= 1
  /\ i <= Len(id)
  /\ charAt(id, i) \in {"0", "1", "2", "3", "4", "5", "6", "7", "8", "9"}

\* The positions at which a maximal run of exactly 8 digits starts.
runsOfEight(id) ==
  {i \in 1..Len(id) :
     /\ ~digitAt(id, i - 1)
     /\ \A k \in 0..7 : digitAt(id, i + k)
     /\ ~digitAt(id, i + 8)}

\* C20: inferReleaseDate returns the date of the first maximal run of
\* exactly 8 consecutive digits of the identifier, read as YYYYMMDD, and no
\* date when there is no such run, in particular when every digit run is
\* shorter or longer than 8.
C20_DateOfFirstRunOfEight ==
  InferReleaseDateDone =>
    LET id == args.modelId
        runs == runsOfEight(id)
    IN  IF runs = {} THEN result = undefined
        ELSE LET at == CHOOSE i \in runs : \A j \in runs : i <= j
             IN  result = SubSeq(id, at, at + 3) \o "-"
                            \o SubSeq(id, at + 4, at + 5) \o "-"
                            \o SubSeq(id, at + 6, at + 7)


\* The requests of a discovery run in the order of the code.
RequestOrder ==
  <<"docs", "model-access", "foundation-models", "inference-profiles">>

\* The identifiers of the statuses without access that can be requested.
gapIds(statuses) ==
  LET gap(st) == ~st.hasAccess /\ st.canRequestAccess
  IN  [i \in 1..Len(SelectSeq(statuses, gap)) |->
         SelectSeq(statuses, gap)[i].modelId]

\* C21: a discovery run makes its requests one after the other: the
\* entitlement query is issued only when the documentation fetch has been
\* answered, once, for the region of the run and the identifiers of the
\* catalog; the availability queries are issued only when it has been
\* answered; and the commands are made from the statuses of the
\* entitlement step, not from the availability result.
C21_RequestsInSequence ==
  /\ Len(requests) <= 4
  /\ \A i \in 1..Len(requests) :
       /\ requests[i].url = RequestOrder[i]
       /\ i > 1 => requests[i].region = region
  /\ pc = "docs" => Len(requests) = 0
  /\ pc = "model-access" => Len(requests) = 1
  /\ pc = "available.foundation-models" => Len(requests) = 2
  /\ pc = "available.inference-profiles" => Len(requests) = 3
  /\ pc = "resolved" => Len(requests) \in {3, 4}
  /\ (AccessResolved /\ Len(accessStatuses) > 0) =>
       modelIdsOf(accessStatuses) = modelIdsOf(catalogModels)
  /\ pc = "resolved" =>
       /\ discovery.accessStatuses = accessStatuses
       /\ discovery.cliCommands =
            generateAccessRequestCommands(gapIds(accessStatuses), region)

\* A run that resolved after four requests with commands for a catalog
\* identifier that no availability query reported.
C21_Witness ==
  /\ pc = "resolved"
  /\ Len(requests) = 4
  /\ Len(discovery.cliCommands) > 0
  /\ Len(discovery.availableModels) > 0
  /\ gapIds(discovery.accessStatuses) /= discovery.availableModels
  /\ ~arrayIncludes(discovery.availableModels, NovaPro)
  /\ arrayIncludes(gapIds(discovery.accessStatuses), NovaPro)


\* The documentation fetch failed: it threw, its body could not be read,
\* or it was answered non-2xx.
docFailed(o) == o.kind \in {"throw", "badbody"} \/ ~o.ok

\* Every request of a resolved discovery run failed.
EverySubStepFailed ==
  /\ pc = "resolved"
  /\ docFailed(requests[1].outcome)
  /\ \A i \in 2..Len(requests) : ~succeeded(requests[i])

\* C22: when every sub-step of a discovery run fails (the documentation
\* fetch, the entitlement query and the availability queries), the result
\* is well formed and all four of its fields are empty.
C22_TotalFailureAllEmpty ==
  EverySubStepFailed =>
    /\ WellFormed(discovery)
    /\ discovery.availableModels = <<>>
    /\ discovery.catalogModels = <<>>
    /\ discovery.accessStatuses = <<>>
    /\ discovery.cliCommands = <<>>

\* C22, with the fallback tiers: when every sub-step fails the result is
\* well formed and availableModels is empty; catalogModels is the static
\* fallback catalog when the documentation fetch raised; accessStatuses is
\* empty when the entitlement query was answered non-2xx and otherwise
\* holds one status without GRANTED per catalog identifier; cliCommands is
\* empty exactly when no status is a gap.
C22_TotalFailureDegrades ==
  EverySubStepFailed =>
    /\ WellFormed(discovery)
    /\ discovery.availableModels = <<>>
    /\ requests[1].outcome.kind \in {"throw", "badbody"} =>
         discovery.catalogModels = getFallbackModelCatalog
    /\ IF requests[2].outcome.kind = "response" /\ ~requests[2].outcome.ok
         THEN discovery.accessStatuses = <<>>
         ELSE /\ modelIdsOf(discovery.accessStatuses) =
                   modelIdsOf(discovery.catalogModels)
              /\ \A i \in 1..Len(discovery.accessStatuses) :
                   discovery.accessStatuses[i].accessStatus = "NOT_REQUESTED"
    /\ discovery.cliCommands = <<>> <=>
         gapIds(discovery.accessStatuses) = <<>>

\* A run whose four requests all threw or were refused, resolved with the
\* six fallback descriptors, six statuses and commands.
C22_Witness ==
  /\ EverySubStepFailed
  /\ requests[1].outcome = DocThrow
  /\ requests[2].outcome = ThrowOutcome
  /\ Len(requests) = 4
  /\ Len(discovery.catalogModels) = 6
  /\ Len(discovery.accessStatuses) = 6
  /\ Len(discovery.cliCommands) = 18


\* The query parameter that carries each filter.
FilterParameter ==
  [provider |-> "byProvider", outputModality |-> "byOutputModality",
   inferenceType |-> "byInferenceType",
   customizationType |-> "byCustomizationType"]

\* The filters the caller supplied, as parameters of a query string.
suppliedFilters ==
  {<<FilterParameter[f], filters[f]>> :
     f \in {g \in DOMAIN filters : filters[g] /= undefined}}

\* C23: in every region both the foundation-models query and the
\* inference-profiles query carry the caller's filters, each as supplied:
\* a filter that is not set is not sent, and no value is invented or
\* altered.
C23_FiltersSentAsSupplied ==
  \A i \in 1..Len(trace) :
    /\ asSet(trace[i].query) = suppliedFilters
    /\ Len(trace[i].query) = Cardinality(suppliedFilters)


ParseDone == entry = "parseModelCatalogFromHTML" /\ pc = "done"

\* A text without its leading and trailing spaces.
stripped(text) ==
  LET inked == {i \in 1..Len(text) : charAt(text, i) /= " "}
  IN  IF inked = {} THEN ""
      ELSE SubSeq(text, CHOOSE i \in inked : \A j \in inked : i <= j,
                        CHOOSE i \in inked : \A j \in inked : j <= i)

\* The rows of a table that are to give a descriptor.
dataRows(rows) ==
  LET described(cells) ==
        /\ Len(cells) >= 6
        /\ stripped(cells[1]) /= ""
        /\ stripped(cells[3]) /= ""
  IN  SelectSeq(rows, described)

\* C24: the parser gives, in row order, one descriptor for each row of the
\* selected table with at least 6 columns and a model id and provider that
\* are not blank, and none for any other row; a row of exactly 6 columns
\* gives streamingSupported = FALSE.
C24_OneDescriptorPerDataRow ==
  ParseDone =>
    LET rows == dataRows(args.html[2].rows)
    IN  /\ Len(result) = Len(rows)
        /\ \A k \in 1..Len(rows) :
             /\ result[k].provider = stripped(rows[k][1])
             /\ result[k].modelName = stripped(rows[k][2])
             /\ result[k].modelId = stripped(rows[k][3])
             /\ Len(rows[k]) = 6 => ~result[k].streamingSupported

\* In a window: a table whose second row has 5 cells and whose third has
\* 6 gives two descriptors, the second without streaming.
C24_Witness ==
  /\ ParseDone
  /\ domParser
  /\ Len(args.html[2].rows) = 3
  /\ Len(args.html[2].rows[1]) = 7
  /\ Len(args.html[2].rows[2]) = 5
  /\ Len(args.html[2].rows[3]) = 6
  /\ Len(result) = 2
  /\ result[1].modelId = Sonnet45
  /\ result[1].streamingSupported
  /\ result[2].modelId = NovaPro
  /\ ~result[2].streamingSupported


\* The direct identifier of a model and its cross-region profile.
ProfilePair == {Sonnet45, UsSonnet45}

\* The identifiers an answer of /model-access lists.
listedIn(o) == {o.body[i].modelId : i \in 1..Len(o.body)}

\* C25: in the live tier a cross-region profile identifier and the direct
\* identifier are separate entries. Each of the two that the caller's list
\* holds, passed at the call or pushed before the list is read, gets a
\* status; every status of either is GRANTED exactly when that very
\* identifier is listed in the answer; and an answer that differs only in
\* the grant of the one leaves the status of the other as it is.
C25_ProfileAndDirectIndependent ==
  (CheckAccessDone /\ answeredOk(args.outcome)) =>
    /\ \A id \in ProfilePair :
         (\E i \in 1..Len(args.modelIds) : args.modelIds[i] = id) =>
           \E k \in 1..Len(result) : result[k].modelId = id
    /\ \A k \in 1..Len(result) :
         result[k].modelId \in ProfilePair =>
           /\ result[k].hasAccess <=>
                result[k].modelId \in listedIn(args.outcome)
           /\ result[k].accessStatus = "GRANTED" <=>
                result[k].modelId \in listedIn(args.outcome)
           /\ \A o \in EntitlementOutcomes :
                ( /\ answeredOk(o)
                  /\ (result[k].modelId \in listedIn(o)) <=>
                       (result[k].modelId \in listedIn(args.outcome)) ) =>
                  checkModelAccessStatus(args.modelIds, o)[k] = result[k]

\* The direct identifier passed, the profile pushed while the request was
\* pending, only the profile granted: the two statuses differ.
C25_Witness ==
  /\ CheckAccessDone
  /\ args.passed = <<Sonnet45>>
  /\ args.modelIds = <<Sonnet45, UsSonnet45>>
  /\ args.outcome = OkOutcome(<< grant(UsSonnet45) >>)
  /\ ~result[1].hasAccess
  /\ result[1].accessStatus = "NOT_REQUESTED"
  /\ result[2].hasAccess
  /\ result[2].accessStatus = "GRANTED"


RequiringAccessDone == entry = "isModelRequiringAccess" /\ pc = "done"

\* A catalog row of the given identifier and provider, before enrichment.
rowOf(modelId, provider) ==
  [modelId |-> modelId, modelName |-> modelId, provider |-> provider,
   regions |-> <<>>, inputModalities |-> <<>>, outputModalities |-> <<>>,
   streamingSupported |-> FALSE, requiresAccess |-> FALSE,
   status |-> "ACTIVE"]

\* C26: the gated-family predicate depends on the identifier alone: it is
\* the match against the pattern list whatever the provider string, so the
\* heuristic tier, which passes the empty provider, denies access exactly
\* to the identifiers whose catalog descriptor has requiresAccess set.
C26_PredicateIgnoresProvider ==
  RequiringAccessDone =>
    /\ result <=> matchesGated(args.modelId)
    /\ \A p \in ProviderStrings :
         isModelRequiringAccess(args.modelId, p) = result
    /\ enhanceModel(rowOf(args.modelId, args.provider)).requiresAccess
         = ~heuristicStatus(args.modelId).hasAccess

\* An ungated Claude identifier asked with the Anthropic provider.
C26_Witness ==
  /\ RequiringAccessDone
  /\ args.modelId = Sonnet35
  /\ args.provider = "Anthropic"
  /\ result = FALSE
  /\ heuristicStatus(Sonnet35).hasAccess


\* C27: when the region loop of fetchBedrockModels has found an identifier,
\* the function returns the merged list and starts no discovery run: no
\* documentation fetch, no entitlement query, no write to the extension
\* storage. The storage is written only on the fallback path, once, and
\* only with a command list that is not empty.
C27_ApiPathHasNoSideEffect ==
  entry = "fetchBedrockModels" =>
    /\ Len(modelIds) > 0 =>
         /\ discoverCalls = <<>>
         /\ requests = <<>>
         /\ storage = <<>>
         /\ pc = "returned" => (returnPath = "api" /\ returned = modelIds)
    /\ storage /= <<>> =>
         /\ Len(storage) = 1
         /\ pc = "returned"
         /\ returnPath \in {"available", "catalog"}
         /\ Len(discoverCalls) = 1
         /\ storage[1].commands = discovery.cliCommands
         /\ Len(storage[1].commands) > 0

\* A return of the merged list of the region loop.
C27_Witness ==
  /\ entry = "fetchBedrockModels"
  /\ pc = "returned"
  /\ returnPath = "api"
  /\ Len(returned) > 1
  /\ returned = modelIds
  /\ storage = <<>>
  /\ requests = <<>>


ProvisioningDone ==
  entry = "generateBedrockProvisioningFiles" /\ pc = "returned"

\* The identifiers, in status order, of the statuses without access for
\* which access can be requested.
requestable(statuses) ==
  LET open(st) == st.hasAccess = FALSE /\ st.canRequestAccess = TRUE
  IN  [i \in 1..Len(SelectSeq(statuses, open)) |->
         SelectSeq(statuses, open)[i].modelId]

\* C28: generateBedrockProvisioningFiles never raises. It calls the
\* artifact generator exactly when the discovery run reports a status with
\* hasAccess = FALSE and canRequestAccess = TRUE, once, with those
\* identifiers in status order and the requested region, and returns the
\* generator's files; with no such status, or when the generator throws, it
\* returns an empty file map.
C28_ProvisioningFilesTotal ==
  entry = "generateBedrockProvisioningFiles" =>
    /\ pc /= "returned" => provisioningCalls = <<>>
    /\ pc = "returned" =>
         /\ result.threw = FALSE
         /\ IF requestable(accessStatuses) /= <<>>
              THEN /\ Len(provisioningCalls) = 1
                   /\ provisioningCalls[1].modelIds = requestable(accessStatuses)
                   /\ provisioningCalls[1].options.region = args.region
                   /\ result.value =
                        IF provisioningCalls[1].outcome.threw THEN <<>>
                        ELSE provisioningCalls[1].outcome.value
              ELSE /\ provisioningCalls = <<>>
                   /\ result.value = <<>>

\* A run whose generator call, for two identifiers, throws: the empty map.
C28_Witness ==
  /\ ProvisioningDone
  /\ Len(provisioningCalls) = 1
  /\ Len(provisioningCalls[1].modelIds) = 2
  /\ provisioningCalls[1].options.region = "ap-northeast-1"
  /\ provisioningCalls[1].outcome.threw
  /\ result = Return(<<>>)


\* The identifiers, in order, of the statuses that report no access.
withoutAccess(statuses) ==
  LET denied(st) == st.hasAccess = FALSE
  IN  [i \in 1..Len(SelectSeq(statuses, denied)) |->
         SelectSeq(statuses, denied)[i].modelId]

\* C29: every status the entitlement resolver returns, in the live and in
\* the heuristic tier and for any answer of the query, has canRequestAccess
\* = TRUE and an accessStatus of GRANTED or NOT_REQUESTED; so the commands
\* of a discovery result are made for exactly the identifiers whose status
\* has hasAccess = FALSE.
C29_EveryStatusRequestable ==
  entry \in {"discoverAvailableModels", "fetchBedrockModels"} =>
    /\ \A i \in 1..Len(accessStatuses) :
         /\ accessStatuses[i].canRequestAccess = TRUE
         /\ accessStatuses[i].accessStatus \in {"GRANTED", "NOT_REQUESTED"}
    /\ pc = "resolved" =>
         /\ discovery.accessStatuses = accessStatuses
         /\ discovery.cliCommands =
              generateAccessRequestCommands(withoutAccess(accessStatuses),
                                            region)

\* A result of the heuristic tier with statuses of both kinds.
C29_Witness ==
  /\ pc = "resolved"
  /\ Len(requests) >= 2
  /\ requests[2].outcome = ThrowOutcome
  /\ \E i \in 1..Len(accessStatuses) : accessStatuses[i].hasAccess
  /\ \E i \in 1..Len(accessStatuses) : ~accessStatuses[i].hasAccess
  /\ Len(discovery.cliCommands) > 0


\* The identifiers a --model-ids line names: the texts between its
\* quotation marks, in order.
namedIn(line) ==
  LET marks == {i \in 1..Len(line) : charAt(line, i) = QUOTE}
      mark(n) == CHOOSE i \in marks : Cardinality({j \in marks : j <= i}) = n
  IN  [k \in 1..(Cardinality(marks) \div 2) |->
         SubSeq(line, mark(2 * k - 1) + 1, mark(2 * k) - 1)]

\* How often a value occurs in a list.
occurrences(list, x) == Cardinality({i \in 1..Len(list) : list[i] = x})

\* C30: generateAccessRequestCommands loses and invents no identifier: the
\* output has exactly 6 lines for each distinct namespace of the input,
\* every group carries the region of the call, every identifier named by a
\* group is one of the input and belongs to the namespace of the group's
\* heading, and each identifier of the input is named, in the groups
\* together, as many times as it occurs in the input.
C30_IdentifiersConserved ==
  GenerateDone =>
    LET ids == args.modelIds
        groups == Len(result) \div 6
        named(g) == namedIn(result[6 * (g - 1) + 4])
    IN  /\ Len(result) =
             6 * Cardinality({namespaceOf(ids[i]) : i \in 1..Len(ids)})
        /\ \A g \in 1..groups :
             /\ result[6 * (g - 1) + 3] = "  --region " \o args.region \o " \\"
             /\ \A k \in 1..Len(named(g)) :
                  /\ \E i \in 1..Len(ids) : ids[i] = named(g)[k]
                  /\ result[6 * (g - 1) + 1] =
                       "# Request access for " \o namespaceOf(named(g)[k])
                         \o " models"
        /\ \A i \in 1..Len(ids) :
             /\ Cardinality({g \in 1..groups :
                               occurrences(named(g), ids[i]) > 0}) = 1
             /\ \E g \in 1..groups :
                  occurrences(named(g), ids[i]) = occurrences(ids, ids[i])

\* An identifier given twice, around one of another namespace.
C30_Witness ==
  /\ GenerateDone
  /\ args.modelIds = <<Sonnet45, NovaPro, Sonnet45>>
  /\ args.region = "ap-northeast-1"
  /\ Len(result) = 12
  /\ namedIn(result[4]) = <<Sonnet45, Sonnet45>>
  /\ namedIn(result[10]) = <<NovaPro>>

====
